---- MODULE Spec2Model ----
(***************************************************************************)
(* A model of the ranking-evaluation code of arcs: DCG/NDCG                *)
(* (arcs/evaluation.py, arcs/measure_ndcg.py), the group statistics        *)
(* (arcs/summarize_results.py), the judgment store (arcs/db.py,            *)
(* arcs/fetch_job_results.py, arcs/launch_job.py, arcs/etl.py) and         *)
(* Krippendorff's alpha (arcs/krippendorff_alpha.py).                      *)
(*                                                                         *)
(* Numbers.  The code works on Python 2 floats.  Quotients are kept as     *)
(* exact fractions [num, den]; the one irrational factor, the discount     *)
(* 1/log2(i + 2), is a fixed-point table (two decimals).  A division is    *)
(* modelled with its Python outcome: dividing Python numbers by zero raises *)
(* ZeroDivisionError, dividing numpy scalars (values read from a pandas    *)
(* Series or a numpy array) by zero yields nan or inf.  Where the rounding *)
(* of the additions matters (dcg_double), the terms are IEEE doubles kept  *)
(* exactly, as three limbs of 20 bits in units of 2^-54, and every         *)
(* addition rounds to 53 bits, to nearest, ties to even.                   *)
(***************************************************************************)
EXTENDS Integers, Sequences, FiniteSets, TLC

VARIABLES
    evalCall,      \* arguments of the call into evaluation.py / measure_ndcg.py
    evalRet,       \* outcome of that call
    dcgRets,       \* the results of dcg on the pairs of the call, per order
    judged_data,   \* summarize_results.stats: the rows of one group
    ideals,        \* summarize_results.stats: the ideal judgments per query
    statsNdcgs,    \* stats: its locals ndcgs_at_5 and ndcgs_at_10
    statsRet,      \* stats: its outcome
    relevance,     \* the answers of the raters to each query-result pair
    printed,       \* print_ndcg: what it reports
    arcs_query_result, \* the table arcs_query_result
    arcs_job,      \* the table arcs_job: the ids of its rows
    cf_jobs,       \* the CrowdFlower jobs: the units of each
    arcs_group_join, \* the table arcs_group_join: its rows in the order of insertion
    insertRet,     \* insert_unjudged_query_results: the last call and what it returned
    arcs_query,    \* the table arcs_query
    arcs_query_group_join, \* the table arcs_query_group_join: its rows in the order of insertion
    queryRet,      \* insert_query: the last call and what it returned
    alphaData,     \* krippendorff_alpha: the ratings, coder by coder
    alphaCall,     \* krippendorff_alpha: the other arguments of the call
    alphaRet,      \* krippendorff_alpha: its outcome
    alphaUnits,    \* krippendorff_alpha: its local units after the filter
    metricCall,    \* a call of one distance metric
    metricRet,     \* its outcome
    group1,        \* an experiment: the results of its first group
    group2,        \* an experiment: the results of its second group
    judged_results_df, \* an experiment: the judged query-result pairs
    sigArgs,       \* the vectors handed to is_statistically_significant
    expStats       \* the record the comparison outputs

evalVars == <<evalCall, evalRet, dcgRets>>

summaryVars == <<judged_data, ideals, statsNdcgs, statsRet, relevance, printed>>

dbVars == <<arcs_query_result, arcs_job, cf_jobs, arcs_group_join, insertRet>>

queryVars == <<arcs_query, arcs_query_group_join, queryRet>>

alphaVars == <<alphaData, alphaCall, alphaRet, alphaUnits, metricCall, metricRet>>

expVars == <<group1, group2, judged_results_df, sigArgs, expStats>>

vars == <<evalVars, summaryVars, dbVars, queryVars, alphaVars, expVars>>

----------------------------------------------------------------------------
(* Bounds of the model *)

\* longest judgment / index / ideal sequence handed to dcg and ndcg
MaxLen == 2

\* largest result position handed to dcg and ndcg
MaxPos == 2

\* number of queries of the group handed to stats, and of the store
NumQueries == 2

\* number of result identifiers of the store
NumFxfs == 1

\* number of CrowdFlower jobs
MaxJobs == 2

\* number of coders rating for krippendorff_alpha
NumCoders == 3

----------------------------------------------------------------------------
(* Numbers *)

\* the graded relevance scale 0-3
MaxJudgment == 3

Scale == 0..MaxJudgment

Abs(x) == IF x < 0 THEN -x ELSE x

Min(a, b) == IF a <= b THEN a ELSE b

RECURSIVE GCD(_, _)
GCD(a, b) == IF b = 0 THEN a ELSE GCD(b, a % b)

\* a float that is a number: the fraction n/d in lowest terms, d > 0
Float(n, d) ==
    LET s == IF d < 0 THEN -1 ELSE 1
        g == GCD(Abs(n), Abs(d))
    IN  [kind |-> "float", num |-> (s * n) \div g, den |-> (s * d) \div g]

Outcome(k) == [kind |-> k, num |-> 0, den |-> 0]

\* Python's a / b on floats.  np: one of the operands is a numpy scalar.
Div(a, b, np) ==
    IF b # 0 THEN Float(a, b)
    ELSE IF ~np THEN Outcome("ZeroDivisionError")
    ELSE IF a = 0 THEN Outcome("nan")
    ELSE Outcome("inf")

IsNumber(r) == r.kind = "float"

\* r is a number in [0, 1]
InUnitInterval(r) == IsNumber(r) /\ 0 <= r.num /\ r.num <= r.den

SeqsUpTo(S, n) == UNION {[1..k -> S] : k \in 0..n}

SeqsOfLen(S, n) == [1..n -> S]

RECURSIVE SumSeq(_)
SumSeq(s) == IF s = <<>> THEN 0 ELSE Head(s) + SumSeq(Tail(s))

\* sorted(xs, reverse=True): insertion into an already sorted sequence
RECURSIVE InsertDesc(_, _)
InsertDesc(x, s) ==
    IF s = <<>> THEN <<x>>
    ELSE IF x >= Head(s) THEN <<x>> \o s
    ELSE <<Head(s)>> \o InsertDesc(x, Tail(s))

RECURSIVE SortedDesc(_)
SortedDesc(s) == IF s = <<>> THEN <<>> ELSE InsertDesc(Head(s), SortedDesc(Tail(s)))

\* range(n), as a sequence
Range(n) == [k \in 1..n |-> k - 1]

----------------------------------------------------------------------------
(* evaluation.py *)

\* 2 * (2**j - 1); doubled so that the gain of the error marker -1,
\* 2**-1 - 1 = -1/2, stays an integer
Gain(j) == IF j >= 0 THEN 2 * (2^j - 1) ELSE -1

\* 100 / log(i + 2, 2), rounded, for i = 0..11
DiscountTable == <<100, 63, 50, 43, 39, 36, 33, 32, 30, 29, 28, 27>>

Discount(i) == DiscountTable[i + 1]

\* dcg: sum over zip(indices, judgments), which stops at the shorter one.
\* The value is 200 times the DCG.
dcg(judgments, indices) ==
    LET n == Min(Len(judgments), Len(indices))
    IN  SumSeq([k \in 1..n |-> Gain(judgments[k]) * Discount(indices[k])])

\* ndcg(judgments, indices=None, ideal_judgments=None); None is hasX = FALSE
ndcgIdealOneBelow(judgments, hasIndices, indices, hasIdeal, ideal, np) ==
    LET idx == IF hasIndices THEN indices ELSE Range(Len(judgments))
        idl == IF hasIdeal THEN ideal ELSE SortedDesc(judgments)
    IN  Div(dcg(judgments, idx), dcg(idl, [k \in 1..Len(idx) |-> idx[k] + 1]), np)
ndcgInverted(judgments, hasIndices, indices, hasIdeal, ideal, np) ==
    LET idx == IF hasIndices THEN indices ELSE Range(Len(judgments))
        idl == IF hasIdeal THEN ideal ELSE SortedDesc(judgments)
    IN  Div(dcg(idl, idx), dcg(judgments, idx), np)
ndcgZeroWhenUndefined(judgments, hasIndices, indices, hasIdeal, ideal, np) ==
    LET idx == IF hasIndices THEN indices ELSE Range(Len(judgments))
        idl == IF hasIdeal THEN ideal ELSE SortedDesc(judgments)
    IN  IF dcg(idl, idx) = 0 THEN Float(0, 1)
        ELSE Div(dcg(judgments, idx), dcg(idl, idx), np)
ndcgDefaultIdealUnsorted(judgments, hasIndices, indices, hasIdeal, ideal, np) ==
    LET idx == IF hasIndices THEN indices ELSE Range(Len(judgments))
        idl == IF hasIdeal THEN ideal ELSE judgments
    IN  Div(dcg(judgments, idx), dcg(idl, idx), np)
ndcg(judgments, hasIndices, indices, hasIdeal, ideal, np) ==
    LET idx == IF hasIndices THEN indices ELSE Range(Len(judgments))
        idl == IF hasIdeal THEN ideal ELSE SortedDesc(judgments)
    IN  Div(dcg(judgments, idx), dcg(idl, idx), np)

----------------------------------------------------------------------------
(* measure_ndcg.py *)

_calc_dcg(judgments, indices) == dcg(judgments, indices)

\* compute_ndcg(iterable, indices=None): an empty indices counts as absent;
\* any exception of the division is caught and None returned
compute_ndcg(iterable, hasIndices, indices, np) ==
    LET idx   == IF hasIndices /\ indices # <<>> THEN indices
                 ELSE Range(Len(iterable))
        d     == _calc_dcg(iterable, idx)
        idcg  == _calc_dcg(SortedDesc(iterable), idx)
        r     == Div(d, idcg, np)
    IN  IF r.kind = "ZeroDivisionError" THEN Outcome("None") ELSE r

----------------------------------------------------------------------------
(* summarize_results.py: data frames *)

\* a NULL column value (None / NaN in the data frame) of a number column
NaN == -9

\* a NULL result_fxf
None == "None"

isnull(x) == x = NaN

\* comparisons of a column with a number: False on NaN
Ge(x, c) == x # NaN /\ x >= c

Lt(x, c) == x # NaN /\ x < c

\* the (query, domain) keys of a frame: the groups of groupby
Keys(df) == {<<r.query, r.domain>> : r \in df}

GroupOf(df, key) == {r \in df : r.query = key[1] /\ r.domain = key[2]}

\* the rows of a frame as a sequence, by result position
RECURSIVE RowSeq(_)
RowSeq(df) ==
    IF df = {} THEN <<>>
    ELSE LET r == CHOOSE x \in df :
                      \A y \in df : x.result_position <= y.result_position
         IN  <<r>> \o RowSeq(df \ {r})

Column(rows, c) == [k \in 1..Len(rows) |-> rows[k][c]]

\* xs[:n]
Take(xs, n) == SubSeq(xs, 1, Min(Len(xs), n))

AddFloat(a, b) ==
    LET g == GCD(a.den, b.den)
    IN  Float(a.num * (b.den \div g) + b.num * (a.den \div g), a.den * (b.den \div g))

RECURSIVE SumFloats(_)
SumFloats(S) ==
    IF S = {} THEN Float(0, 1)
    ELSE LET x == CHOOSE y \in S : TRUE
         IN  AddFloat(x.val, SumFloats(S \ {x}))

\* Series.mean() of the column c of a table: NaN entries are skipped, the
\* mean of nothing is NaN, an infinite entry makes the mean infinite
MeanWithUndefinedAsZero(table, c) ==
    LET vals == {[key |-> <<r.query, r.domain>>,
                  val |-> IF r[c].kind = "float" THEN r[c] ELSE Float(0, 1)] : r \in table}
        sum  == SumFloats(vals)
    IN  IF vals = {} THEN Outcome("nan")
        ELSE Float(sum.num, sum.den * Cardinality(vals))
Mean(table, c) ==
    LET vals == {[key |-> <<r.query, r.domain>>, val |-> r[c]] : r \in table}
        nums == {v \in vals : v.val.kind = "float"}
        sum  == SumFloats(nums)
    IN  IF \E v \in vals : v.val.kind = "inf" THEN Outcome("inf")
        ELSE IF nums = {} THEN Outcome("nan")
        ELSE Float(sum.num, sum.den * Cardinality(nums))

\* 1 - x
OneMinus(x) == IF x.kind = "float" THEN Float(x.den - x.num, x.den) ELSE x

----------------------------------------------------------------------------
(* summarize_results.py *)

\* per_query_ndcg.trim
trimInclusive(group_df, ndcg_at) ==
    {r \in group_df : r.result_position # NaN /\ r.result_position <= ndcg_at}
trim(group_df, ndcg_at) == {r \in group_df : Lt(r.result_position, ndcg_at)}

IdealsOf(idl, key) ==
    (CHOOSE i \in idl : i.query = key[1] /\ i.domain = key[2]).judgments

\* per_query_ndcg.query_dcg; the columns are pandas Series
query_dcg(group_df, ndcg_at) ==
    LET data == RowSeq(trim(group_df, ndcg_at))
    IN  IF Len(data) > 0
        THEN Float(dcg(Column(data, "judgment"), Column(data, "result_position")), 1)
        ELSE Float(0, 1)

\* per_query_ndcg.query_ndcg
query_ndcg(group_df, group_ideals, ndcg_at) ==
    LET data == RowSeq(trim(group_df, ndcg_at))
    IN  IF Len(data) > 0
        THEN ndcg(Column(data, "judgment"), TRUE, Column(data, "result_position"),
                  TRUE, Take(group_ideals, ndcg_at), TRUE)
        ELSE Float(0, 1)

\* per_query_ndcg: inner merge with the ideals on (query, domain), then one
\* row of scores per group.  With no group, grouped.apply(...) is an empty
\* frame without a column 0 and reset_index()[0] raises KeyError.
per_query_ndcg(data, idl, ndcg_at) ==
    LET merged == {r \in data : <<r.query, r.domain>> \in Keys(idl)}
        dcgs_df == {[query  |-> key[1],
                     domain |-> key[2],
                     dcg    |-> query_dcg(GroupOf(merged, key), ndcg_at),
                     ndcg   |-> query_ndcg(GroupOf(merged, key),
                                           IdealsOf(idl, key), ndcg_at)] :
                        key \in Keys(merged)}
    IN  IF merged = {} THEN [kind |-> "KeyError", rows |-> {}]
        ELSE [kind |-> "DataFrame", rows |-> dcgs_df]

\* find_oddballs
find_oddballs(df) == {r \in df : Lt(r.judgment, 1)}

\* group_ndcgs: only the rows with judgment >= 0 are scored
group_ndcgs_of_all_rows(df, idl, ndcg_at) == per_query_ndcg(df, idl, ndcg_at)
group_ndcgs(df, idl, ndcg_at) ==
    LET judged_group_df == {r \in df : Ge(r.judgment, 0)}
    IN  per_query_ndcg(judged_group_df, idl, ndcg_at)

\* precision: the filtered frame judged_group_df is computed and not used
precision(df) ==
    Div(Cardinality({r \in df : Ge(r.judgment, 1)}), Cardinality(df), FALSE)

\* the locals ndcgs_at_5 and ndcgs_at_10 of stats
stats_ndcgs(data, idl) ==
    LET df == {r \in data : r.result_fxf # None}
    IN  [at_5 |-> group_ndcgs(df, idl, 5), at_10 |-> group_ndcgs(df, idl, 10)]

NoStats ==
    [kind |-> "pending", num_queries |-> 0, unjudged_qrps |-> 0,
     avg_ndcg_at_5 |-> Outcome("pending"), avg_ndcg_at_10 |-> Outcome("pending"),
     ndcg_error |-> Outcome("pending"), precision |-> Outcome("pending"),
     num_zero_result_queries |-> 0, num_irrelevant |-> 0]

Raised(e) == [NoStats EXCEPT !.kind = e]

stats(data, idl) ==
    LET zero_result_queries == {r \in data : r.result_fxf = None}
        num_queries == Cardinality(Keys(data))
        df == {r \in data : r.result_fxf # None}
        num_unjudged == Cardinality({r \in df : isnull(r.judgment)})
        oddballs == find_oddballs(df)
        ndcgs == stats_ndcgs(data, idl)
        mean_ndcg_at_5 == Mean(ndcgs.at_5.rows, "ndcg")
        mean_ndcg_at_10 == Mean(ndcgs.at_10.rows, "ndcg")
    IN  IF ndcgs.at_5.kind # "DataFrame" THEN Raised(ndcgs.at_5.kind)
        ELSE IF ndcgs.at_10.kind # "DataFrame" THEN Raised(ndcgs.at_10.kind)
        ELSE IF ~IsNumber(precision(df)) THEN Raised(precision(df).kind)
        ELSE [kind |-> "dict",
              num_queries |-> num_queries,
              unjudged_qrps |-> num_unjudged,
              avg_ndcg_at_5 |-> mean_ndcg_at_5,
              avg_ndcg_at_10 |-> mean_ndcg_at_10,
              ndcg_error |-> OneMinus(mean_ndcg_at_5),
              precision |-> precision(df),
              num_zero_result_queries |-> Cardinality(zero_result_queries),
              num_irrelevant |-> Cardinality(oddballs)]

----------------------------------------------------------------------------
(* db.py, launch_job.py, fetch_job_results.py, etl.py: the judgment store *)

\* next value of the serial id column of a table
NextId(table) ==
    IF table = {} THEN 1
    ELSE 1 + (CHOOSE m \in {r.id : r \in table} : \A r \in table : r.id <= m)

Matching(table, query, result_fxf) ==
    {r \in table : r.query = query /\ r.result_fxf = result_fxf}

\* find_judged_qrps: SELECT query, result_fxf ... WHERE judgment IS NOT NULL
find_judged_qrps(table) ==
    {<<r.query, r.result_fxf>> : r \in {x \in table : ~isnull(x.judgment)}}

\* filter_previously_judged
filter_nothing(table, qrps_df) == qrps_df
filter_previously_judged(table, qrps_df) ==
    LET previously_judged == find_judged_qrps(table)
    IN  {row \in qrps_df : <<row.query, row.result_fxf>> \notin previously_judged}

\* submit_job: the units sent for judgment, one per (query, result_fxf) of
\* the rows left by filter_previously_judged
submit_job(table, data_df) ==
    {<<row.query, row.result_fxf>> : row \in filter_previously_judged(table, data_df)}

\* insert_unjudged_query_results, one result: INSERT ... judgment NULL ...
\* WHERE NOT EXISTS (a row with this query and result_fxf)
insert_always(table, job_id, query, result_fxf) ==
    table \cup {[id |-> NextId(table), query |-> query,
                 result_fxf |-> result_fxf, judgment |-> NaN, job_id |-> job_id]}
insert_unjudged_query_result(table, job_id, query, result_fxf) ==
    IF Matching(table, query, result_fxf) # {} THEN table
    ELSE table \cup {[id |-> NextId(table), query |-> query,
                      result_fxf |-> result_fxf, judgment |-> NaN,
                      job_id |-> job_id]}

\* the rows of arcs_group_join with these values
Joined(join, group_id, query_result_id, result_position) ==
    {k \in DOMAIN join : /\ join[k].group_id = group_id
                         /\ join[k].query_result_id = query_result_id
                         /\ join[k].result_position = result_position}

\* insert_unjudged_query_results: the loop over the results of one query.
\* st holds the two tables and the counters new_qrps_added and
\* num_redundant_qrps; a result is [result_fxf, result_position].
RECURSIVE insert_unjudged_query_results(_, _, _, _, _)
insert_unjudged_query_results(st, job_id, group_id, query, results) ==
    IF results = <<>> THEN st
    ELSE LET result == Head(results)
             last_result == Matching(st.arcs_query_result, query, result.result_fxf) = {}
             table == insert_unjudged_query_result(st.arcs_query_result, job_id, query,
                                                   result.result_fxf)
             query_result_id ==
                 (CHOOSE r \in Matching(table, query, result.result_fxf) : TRUE).id
             exists == Joined(st.arcs_group_join, group_id, query_result_id,
                              result.result_position) # {}
         IN  insert_unjudged_query_results(
                 [arcs_query_result |-> table,
                  arcs_group_join |->
                      IF exists THEN st.arcs_group_join
                      ELSE Append(st.arcs_group_join,
                                  [group_id |-> group_id,
                                   query_result_id |-> query_result_id,
                                   result_position |-> result.result_position]),
                  new_qrps_added |-> st.new_qrps_added + IF last_result THEN 1 ELSE 0,
                  num_redundant_qrps |-> st.num_redundant_qrps + IF exists THEN 1 ELSE 0],
                 job_id, group_id, query, Tail(results))

\* add_judgments_for_qrps, one row of data:
\* UPDATE arcs_query_result SET judgment=%s WHERE query=%s AND result_fxf=%s
add_judgment_for_qrp(table, row) ==
    {IF r.query = row.query /\ r.result_fxf = row.result_fxf
     THEN [r EXCEPT !.judgment = row.judgment] ELSE r : r \in table}

\* add_judgments_for_qrps: the loop over data
RECURSIVE add_judgments_for_qrps(_, _)
add_judgments_for_qrps(table, data) ==
    IF data = <<>> THEN table
    ELSE add_judgments_for_qrps(add_judgment_for_qrp(table, Head(data)), Tail(data))

\* etl.post_to_arcs_query_result: INSERT of every (query, fxf) with its
\* judgment; (query, result_fxf) is unique, and on a conflict the transaction
\* is rolled back to the table the call started from and the old row stays
RECURSIVE post_to_arcs_query_result(_, _, _, _)
post_to_arcs_query_result(committed, table, qrps, job_id) ==
    IF qrps = <<>> THEN table
    ELSE LET q == Head(qrps)
         IN  IF Matching(table, q.query, q.result_fxf) # {}
             THEN post_to_arcs_query_result(committed, committed, Tail(qrps), job_id)
             ELSE post_to_arcs_query_result(
                      committed,
                      table \cup {[id |-> NextId(table), query |-> q.query,
                                   result_fxf |-> q.result_fxf,
                                   judgment |-> q.judgment, job_id |-> job_id]},
                      Tail(qrps), job_id)

\* etl.post_to_arcs_group_join: INSERT of (group_id, id of the pair's row,
\* result_position) for every pair of data; the triple is unique.  An INSERT
\* that fails (the triple is there, or the pair has no row because its
\* INSERT was rolled back) leaves the transaction aborted, so the commit at
\* the end keeps none of the rows of the call.
post_to_arcs_group_join(join, table, group_id, data) ==
    LET ids(k) == {r.id : r \in Matching(table, data[k].query, data[k].result_fxf)}
        fails(k) == \/ ids(k) = {}
                    \/ \E id \in ids(k) :
                          Joined(join, group_id, id, data[k].result_position) # {}
    IN  IF \E k \in DOMAIN data : fails(k) THEN join
        ELSE join \o [k \in DOMAIN data |->
                         [group_id |-> group_id,
                          query_result_id |-> CHOOSE id \in ids(k) : TRUE,
                          result_position |-> data[k].result_position]]

----------------------------------------------------------------------------
(* krippendorff_alpha.py *)

\* the indicator for a missing rating ('*' in the calls of the repository)
missing_items == -9

\* The metrics return [ok, val]: ok is FALSE when the metric divides by zero,
\* val is the distance times MetricScale (3600 = lcm of (a + b)^2 for ratings
\* a, b on the scale, which keeps ratio_metric an integer).
MetricScale(metric) == IF metric = "ratio" THEN 3600 ELSE 1

Distance(v) == [ok |-> TRUE, val |-> v]

\* nominal_metric: a != b, the bool counted as 0 or 1
nominal_metric(a, b) == Distance(IF a # b THEN 1 ELSE 0)

\* interval_metric
interval_metric_of_sum(a, b) == Distance((a + b) ^ 2)
interval_metric(a, b) == Distance((a - b) ^ 2)

\* ratio_metric, on floats: ((a-b)/(a+b))**2; a + b = 0 divides by zero
ratio_metric(a, b) ==
    IF a + b = 0 THEN [ok |-> FALSE, val |-> 0]
    ELSE Distance((3600 \div ((a + b) ^ 2)) * ((a - b) ^ 2))

\* sum(x for x in xrange(a, b))
SumXrange(a, b) == IF b <= a THEN 0 ELSE ((b - a) * (a + b - 1)) \div 2

\* ordinal_metric, on ints: (a + b)/2 is the integer division of Python 2
ordinal_metric(a0, b0) ==
    LET a == Min(a0, b0)
        b == IF a0 <= b0 THEN b0 ELSE a0
        sub == (a + b) \div 2
        n == IF b <= a THEN 0 ELSE b - a
    IN  Distance((SumXrange(a, b) - n * sub) ^ 2)

Metrics == {"nominal", "interval", "ratio", "ordinal"}

Metric(metric, a, b) ==
    CASE metric = "nominal" -> nominal_metric(a, b)
      [] metric = "interval" -> interval_metric(a, b)
      [] metric = "ratio" -> ratio_metric(a, b)
      [] metric = "ordinal" -> ordinal_metric(a, b)

\* intify_floats
intify_floats(d) == d * 100

\* convert_items: float and int leave a rating of the scale as it is
Convert(convert_items, rating) ==
    IF convert_items = "intify_floats" THEN intify_floats(rating) ELSE rating

\* the ratings of item idx, coder by coder, without the missing ones
RECURSIVE RatingsOf(_, _, _)
RatingsOf(data, idx, convert_items) ==
    IF data = <<>> THEN <<>>
    ELSE LET rating == Head(data)[idx]
             rest == RatingsOf(Tail(data), idx, convert_items)
         IN  IF rating = missing_items THEN rest
             ELSE <<Convert(convert_items, rating)>> \o rest

\* the dict of units: preprocessed data is taken as it is, coder mappings
\* are regrouped by item
Units(data, items, preprocessed, convert_items) ==
    IF preprocessed THEN data
    ELSE [idx \in items |-> RatingsOf(data, idx, convert_items)]

\* get rid of the units with a single/no rating(s)
RetainedKeepingSingles(units) == {idx \in DOMAIN units : Len(units[idx]) > 0}
Retained(units) == {idx \in DOMAIN units : Len(units[idx]) > 1}

RECURSIVE SumOver(_, _)
SumOver(S, f) ==
    IF S = {} THEN 0
    ELSE LET x == CHOOSE y \in S : TRUE IN f[x] + SumOver(S \ {x}, f)

RECURSIVE SumFloatsOver(_, _)
SumFloatsOver(S, f) ==
    IF S = {} THEN Float(0, 1)
    ELSE LET x == CHOOSE y \in S : TRUE IN AddFloat(f[x], SumFloatsOver(S \ {x}, f))

\* sum(metric(gi, gj) for gj in g2)
RECURSIVE RowSum(_, _, _)
RowSum(metric, gi, g2) ==
    IF g2 = <<>> THEN 0
    ELSE Metric(metric, gi, Head(g2)).val + RowSum(metric, gi, Tail(g2))

\* sum(metric(gi, gj) for gi in g1 for gj in g2)
RECURSIVE PairSum(_, _, _)
PairSum(metric, g1, g2) ==
    IF g1 = <<>> THEN 0
    ELSE RowSum(metric, Head(g1), g2) + PairSum(metric, Tail(g1), g2)

PairsDefined(metric, g1, g2) ==
    \A i \in DOMAIN g1, j \in DOMAIN g2 : Metric(metric, g1[i], g2[j]).ok

\* num_judgements
NumJudgements(units) == SumOver(Retained(units), [idx \in Retained(units) |-> Len(units[idx])])

\* Do before the division by num_judgements
ObservedSum(metric, units) ==
    SumFloatsOver(Retained(units),
        [idx \in Retained(units) |->
            Float(PairSum(metric, units[idx], units[idx]), Len(units[idx]) - 1)])

\* De before the division by num_judgements * (num_judgements - 1)
ExpectedSum(metric, units) ==
    SumOver(Retained(units) \X Retained(units),
        [p \in Retained(units) \X Retained(units) |->
            PairSum(metric, units[p[1]], units[p[2]])])

\* the vectorised path is taken for the three metrics numpy can map over arrays
numpy_metric_any(numpy, metric) == numpy
numpy_metric(numpy, metric) == numpy /\ metric \in {"interval", "nominal", "ratio"}

\* krippendorff_alpha(data, metric, preprocessed, convert_items), force_vecmath
\* left at False; numpy: the module numpy could be imported
krippendorff_alpha_without_complement(data, items, metric, preprocessed, convert_items, numpy) ==
    LET units == Units(data, items, preprocessed, convert_items)
        n     == NumJudgements(units)
    IN  IF n = 0 THEN Outcome("ZeroDivisionError")
        ELSE Div(ObservedSum(metric, units).num * (n - 1),
                 ObservedSum(metric, units).den * ExpectedSum(metric, units),
                 numpy_metric(numpy, metric))
krippendorff_alpha(data, items, metric, preprocessed, convert_items, numpy) ==
    LET units == Units(data, items, preprocessed, convert_items)
        kept  == Retained(units)
        n     == NumJudgements(units)
        vec   == numpy_metric(numpy, metric)
        Do    == ObservedSum(metric, units)
        De    == ExpectedSum(metric, units)
        undefined == Outcome(IF vec THEN "nan" ELSE "ZeroDivisionError")
    IN  IF n = 0 THEN Outcome("ZeroDivisionError")
        \* metric(gi, gj) divides by zero
        ELSE IF \E i, j \in kept : ~PairsDefined(metric, units[i], units[j])
             THEN undefined
        \* Du/float(len(grades)-1)
        ELSE IF \E i \in kept : Len(units[i]) = 1 THEN undefined
        \* 1. - (Do / n) / (De / (n * (n - 1)))
        ELSE OneMinus(Div(Do.num * (n - 1), Do.den * De, vec))

----------------------------------------------------------------------------
(* The parts of the state a specification leaves alone *)

NoNdcgs == [at_5 |-> [kind |-> "pending", rows |-> {}],
            at_10 |-> [kind |-> "pending", rows |-> {}]]

NoPrinted == [kind |-> "pending", dom_ndcgs |-> {}, dom_ndcg |-> Outcome("pending"),
              all_ndcg |-> Outcome("pending")]

SummaryIdle ==
    /\ judged_data = {}
    /\ ideals = {}
    /\ relevance = <<>>
    /\ printed = NoPrinted
    /\ statsNdcgs = NoNdcgs
    /\ statsRet = NoStats

NoInsert == [kind |-> "pending", calls |-> 0]

NoQuery == [kind |-> "pending", calls |-> 0]

QueryIdle ==
    /\ arcs_query = {}
    /\ arcs_query_group_join = <<>>
    /\ queryRet = NoQuery

DbIdle ==
    /\ arcs_query_result = {}
    /\ arcs_job = {}
    /\ cf_jobs = <<>>
    /\ arcs_group_join = <<>>
    /\ insertRet = NoInsert
    /\ QueryIdle

NoAlphaCall ==
    [metric |-> "none", preprocessed |-> FALSE, convert_items |-> "none",
     numpy |-> FALSE]

NoMetricCall == [metric |-> "none", a |-> 0, b |-> 0, vec |-> FALSE]

AlphaIdle ==
    /\ alphaData = <<>>
    /\ alphaCall = NoAlphaCall
    /\ alphaRet = Outcome("pending")
    /\ alphaUnits = <<>>
    /\ metricCall = NoMetricCall
    /\ metricRet = Outcome("pending")

NoSigArgs == [called |-> FALSE, g1 |-> <<>>, g2 |-> <<>>]

NoExpStats == [kind |-> "pending"]

ExpIdle ==
    /\ group1 = {}
    /\ group2 = {}
    /\ judged_results_df = {}
    /\ sigArgs = NoSigArgs
    /\ expStats = NoExpStats

----------------------------------------------------------------------------
(* Calls into evaluation.py and measure_ndcg.py *)

Positions == 0..MaxPos

NoRet == Outcome("pending")

\* the calls: indices, when given, are parallel to the judgments; only ndcg
\* takes an ideal sequence
InitEval ==
    /\ \E f \in {"ndcg", "compute_ndcg"}, j \in SeqsUpTo(Scale, MaxLen),
          hi \in BOOLEAN, n \in BOOLEAN :
       \E i \in IF hi THEN SeqsOfLen(Positions, Len(j)) ELSE {<<>>},
          hd \in IF f = "ndcg" THEN BOOLEAN ELSE {FALSE} :
       \E d \in IF hd THEN SeqsUpTo(Scale, MaxLen) ELSE {<<>>} :
          evalCall = [fn |-> f, judgments |-> j, hasIndices |-> hi, indices |-> i,
                      hasIdeal |-> hd, ideal |-> d, np |-> n]
    /\ evalRet = NoRet
    /\ dcgRets = <<>>
    /\ SummaryIdle
    /\ DbIdle
    /\ AlphaIdle
    /\ ExpIdle

CallNdcg ==
    /\ evalRet = NoRet
    /\ evalCall.fn = "ndcg"
    /\ evalRet' = ndcg(evalCall.judgments, evalCall.hasIndices, evalCall.indices,
                       evalCall.hasIdeal, evalCall.ideal, evalCall.np)
    /\ UNCHANGED <<evalCall, dcgRets, summaryVars, dbVars, alphaVars, expVars, queryVars>>

CallComputeNdcg ==
    /\ evalRet = NoRet
    /\ evalCall.fn = "compute_ndcg"
    /\ evalRet' = compute_ndcg(evalCall.judgments, evalCall.hasIndices,
                               evalCall.indices, evalCall.np)
    /\ UNCHANGED <<evalCall, dcgRets, summaryVars, dbVars, alphaVars, expVars, queryVars>>

NextEval == CallNdcg \/ CallComputeNdcg

SpecEval == InitEval /\ [][NextEval]_vars

\* the denominator of the call: the DCG of the ideal sequence at the indices
EvalIdx == IF evalCall.hasIndices /\ (evalCall.fn = "ndcg" \/ evalCall.indices # <<>>)
           THEN evalCall.indices ELSE Range(Len(evalCall.judgments))

EvalIdeal == IF evalCall.hasIdeal THEN evalCall.ideal ELSE SortedDesc(evalCall.judgments)

EvalDone == evalRet # NoRet

\* C1: whenever the ideal DCG of a call is zero, ndcg (and compute_ndcg) ends
\* in an undefined outcome - ZeroDivisionError, None, nan or inf - and never
\* in a number.
C1_UndefinedNdcg ==
    (EvalDone /\ dcg(EvalIdeal, EvalIdx) = 0) => ~IsNumber(evalRet)

C1_Witness ==
    /\ EvalDone
    /\ evalCall.fn = "ndcg"
    /\ evalCall.judgments # <<>>
    /\ dcg(EvalIdeal, EvalIdx) = 0
    /\ evalRet.kind = "ZeroDivisionError"

\* the call of C2: ndcg(J, I, J sorted descending), J and I of equal non-zero
\* length, a non-zero denominator
C2_Call ==
    /\ EvalDone
    /\ evalCall.fn = "ndcg"
    /\ evalCall.hasIndices
    /\ Len(evalCall.judgments) > 0
    /\ evalCall.hasIdeal
    /\ evalCall.ideal = SortedDesc(evalCall.judgments)
    /\ dcg(evalCall.ideal, evalCall.indices) # 0

C2_Value ==
    /\ evalRet = Float(dcg(evalCall.judgments, evalCall.indices),
                       dcg(SortedDesc(evalCall.judgments), evalCall.indices))
    /\ InUnitInterval(evalRet)

StrictlyIncreasing(s) == \A k \in 1..(Len(s) - 1) : s[k] < s[k + 1]

\* C2 as stated: for every index sequence I, increasing or not, the value
\* ndcg(J, I, J sorted descending) is dcg(J, I) / dcg(J sorted, I) and lies in
\* [0, 1].
C2_AnyIndexOrder == C2_Call => C2_Value

\* C2, amended: when the positions in I are strictly increasing,
\* ndcg(J, I, J sorted descending) is dcg(J, I) / dcg(J sorted, I) and lies in
\* [0, 1].
C2_IncreasingIndices ==
    (C2_Call /\ StrictlyIncreasing(evalCall.indices)) => C2_Value

C2_Witness ==
    /\ C2_Call
    /\ StrictlyIncreasing(evalCall.indices)
    /\ Len(evalCall.judgments) = 2
    /\ evalCall.judgments # SortedDesc(evalCall.judgments)
    /\ 0 < evalRet.num
    /\ evalRet.num < evalRet.den

----------------------------------------------------------------------------
(* Calls into summarize_results.py *)

EvalIdle ==
    /\ evalCall = [fn |-> "ndcg", judgments |-> <<>>, hasIndices |-> FALSE,
                   indices |-> <<>>, hasIdeal |-> FALSE, ideal |-> <<>>,
                   np |-> FALSE]
    /\ evalRet = NoRet
    /\ dcgRets = <<>>

Queries == 1..NumQueries

Domain == "data.kcmo.org"

\* result positions of the rows: one below both cutoffs of stats, one between
SamplePositions == {0, 5}

\* a result set fills the positions from the top
PositionSets ==
    {P \in SUBSET SamplePositions :
        P # {} /\ \A p \in P : \A q \in SamplePositions : q < p => q \in P}

\* not yet judged, judged as an error, judged irrelevant, judged relevant
JudgmentChoices == {NaN, -1, 0, 2}

FxfAt(p) == IF p = NaN THEN None ELSE IF p = 0 THEN "aaaa-0000" ELSE "bbbb-5555"

\* group_queries_and_judgments_query: a query of the group without results is
\* one row of NULLs, a query with results one row per result
ZeroResultRow(q) ==
    [query |-> q, domain |-> Domain, result_fxf |-> None,
     result_position |-> NaN, judgment |-> NaN]

\* the results of a query, as the judgment at each position: no position
\* when the query is not one of the group, the position NULL with the
\* judgment NULL for a query without results
ResultChoices ==
    {[p \in {NaN} |-> NaN]}
    \cup UNION {[P -> JudgmentChoices] : P \in PositionSets \cup {{}}}

\* the rows of query q in the group
QueryRows(q, results) ==
    {[query |-> q, domain |-> Domain, result_fxf |-> FxfAt(p),
      result_position |-> p, judgment |-> results[p]] : p \in DOMAIN results}

\* judgments of the query's results recorded outside the group
ExtraIdeals == {<<>>, <<3>>, <<0>>}

\* query_ideals_query: per (query, domain), all judgments that are not NULL,
\* in descending order
IdealsRow(q, rows, extra) ==
    LET judged == RowSeq({r \in rows : ~isnull(r.judgment)})
    IN  [query |-> q, domain |-> Domain,
         judgments |-> SortedDesc(Column(judged, "judgment") \o extra)]

InitSummary ==
    /\ \E f \in [Queries -> ResultChoices], e \in [Queries -> ExtraIdeals] :
          /\ judged_data = UNION {QueryRows(q, f[q]) : q \in Queries}
          /\ ideals = {i \in {IdealsRow(q, QueryRows(q, f[q]), e[q]) : q \in Queries} :
                          i.judgments # <<>>}
    /\ statsNdcgs = NoNdcgs
    /\ statsRet = NoStats
    /\ relevance = <<>>
    /\ printed = NoPrinted
    /\ EvalIdle
    /\ DbIdle
    /\ AlphaIdle
    /\ ExpIdle

CallStats ==
    /\ statsRet = NoStats
    /\ printed = NoPrinted
    /\ statsNdcgs' = stats_ndcgs(judged_data, ideals)
    /\ statsRet' = stats(judged_data, ideals)
    /\ UNCHANGED <<judged_data, ideals, relevance, printed, evalVars, dbVars, alphaVars,
                   expVars, queryVars>>

NextSummary == CallStats

SpecSummary == InitSummary /\ [][NextSummary]_vars

StatsDone == statsRet # NoStats

\* the rows of a (query, domain) pair that the scores are computed from
Scored(key) == {r \in GroupOf(judged_data, key) : Ge(r.judgment, 0)}

ScoresOf(table, key) == {s \in table.rows : s.query = key[1] /\ s.domain = key[2]}

\* the rows at a result position below the cutoff
BelowCutoff(rows, cutoff) ==
    {r \in rows : ~isnull(r.result_position) /\ r.result_position < cutoff}

ZeroScores(table, key) ==
    \E s \in ScoresOf(table, key) : s.dcg = Float(0, 1) /\ s.ndcg = Float(0, 1)

\* C3 as stated: every (query, domain) pair of the group without a row at a
\* position below 5, a query with zero results included, is in the NDCG@5
\* scores with dcg = 0 and ndcg = 0.
C3_ZeroResultQueriesScoreZero ==
    (StatsDone /\ statsRet.kind = "dict") =>
        \A key \in Keys(judged_data) :
            BelowCutoff(GroupOf(judged_data, key), 5) = {} => ZeroScores(statsNdcgs.at_5, key)

\* C3, amended: a (query, domain) pair that has rows with judgment >= 0, none
\* of them at a position below 5, is in the NDCG@5 scores with dcg = 0 and
\* ndcg = 0; a pair without any row of judgment >= 0 (a query with zero
\* results, or with unjudged results only) has no entry in the scores.
C3_ScoredBeyondCutoffScoreZero ==
    (StatsDone /\ statsRet.kind = "dict") =>
        \A key \in Keys(judged_data) :
            /\ (Scored(key) # {} /\ BelowCutoff(Scored(key), 5) = {})
                   => ZeroScores(statsNdcgs.at_5, key)
            /\ Scored(key) = {} => ScoresOf(statsNdcgs.at_5, key) = {}
            /\ Scored(key) # {} => Cardinality(ScoresOf(statsNdcgs.at_5, key)) = 1

C3_Witness ==
    /\ StatsDone
    /\ statsRet.kind = "dict"
    /\ \E key \in Keys(judged_data) :
          /\ Scored(key) # {}
          /\ BelowCutoff(Scored(key), 5) = {}
          /\ ZeroScores(statsNdcgs.at_5, key)
    /\ \E key \in Keys(judged_data) :
          /\ GroupOf(judged_data, key) = {ZeroResultRow(key[1])}
          /\ ScoresOf(statsNdcgs.at_5, key) = {}
    /\ IsNumber(statsRet.avg_ndcg_at_5)

\* C4: stats reports precision = (rows with judgment >= 1) / (judged rows),
\* the judged rows being those with a judgment that is present and not an
\* error marker.
C4_PrecisionOverJudgedRows ==
    (StatsDone /\ statsRet.kind = "dict") =>
        LET results == {r \in judged_data : r.result_fxf # None}
            judged == {r \in results : Ge(r.judgment, 0)}
            relevant == {r \in results : Ge(r.judgment, 1)}
        IN  judged # {} =>
                statsRet.precision = Float(Cardinality(relevant), Cardinality(judged))

----------------------------------------------------------------------------
(* The judgment store: job submission, inserts and fetches *)

Fxfs == 1..NumFxfs

\* the (query, result_fxf) pairs
Pairs == Queries \X Fxfs

JobIds == 1..MaxJobs

\* the aggregated judgments a job reports
CrowdJudgments == {0, 2}

\* the rows handed to submit_job: search results of some queries
DataFrames == {{[query |-> p[1], result_fxf |-> p[2]] : p \in P} : P \in SUBSET Pairs} \ {{}}

\* all orders in which the rows of a set can be listed
Orders(S) ==
    {s \in [1..Cardinality(S) -> S] : \A i, j \in 1..Cardinality(S) : s[i] = s[j] => i = j}

InitDb ==
    /\ arcs_query_result = {}
    /\ arcs_job = {}
    /\ cf_jobs = <<>>
    /\ arcs_group_join = <<>>
    /\ insertRet = NoInsert
    /\ QueryIdle
    /\ EvalIdle
    /\ SummaryIdle
    /\ AlphaIdle
    /\ ExpIdle

\* launch_job.submit_job: a new CrowdFlower job with the unjudged pairs of data_df
SubmitJob ==
    \E data_df \in DataFrames :
        /\ Len(cf_jobs) < MaxJobs
        /\ cf_jobs' = Append(cf_jobs, submit_job(arcs_query_result, data_df))
        /\ UNCHANGED <<arcs_query_result, arcs_job, arcs_group_join, insertRet, evalVars,
                     summaryVars, alphaVars, expVars, queryVars>>

\* db.insert_incomplete_job (launch_job.persist_job_data): the job enters arcs_job
InsertIncompleteJob ==
    \E job \in 1..Len(cf_jobs) :
        /\ job \notin arcs_job
        /\ arcs_job' = arcs_job \cup {job}
        /\ UNCHANGED <<arcs_query_result, cf_jobs, arcs_group_join, insertRet, evalVars,
                     summaryVars, alphaVars, expVars, queryVars>>

\* the result lists of a query: fxfs with their rank as result_position
ResultsOf(fxfs) ==
    [k \in DOMAIN fxfs |-> [result_fxf |-> fxfs[k], result_position |-> k - 1]]

\* the outcome of a call of insert_unjudged_query_results as the state keeps it
Inserted(st, group_id, query, results) ==
    /\ arcs_query_result' = st.arcs_query_result
    /\ arcs_group_join' = st.arcs_group_join
    /\ insertRet' = [kind |-> "returned", calls |-> insertRet.calls + 1,
                     group_id |-> group_id, query |-> query, results |-> results,
                     ret |-> <<st.new_qrps_added, st.num_redundant_qrps>>]

\* db.insert_unjudged_query_results for the results of one query
InsertUnjudgedQueryResults ==
    \E job \in arcs_job, query \in Queries :
    \E fxfs \in SeqsUpTo(Fxfs, NumFxfs) \ {<<>>} :
        /\ insertRet.calls < MaxJobs
        /\ Inserted(insert_unjudged_query_results(
                        [arcs_query_result |-> arcs_query_result,
                         arcs_group_join |-> arcs_group_join,
                         new_qrps_added |-> 0, num_redundant_qrps |-> 0],
                        job, job, query, ResultsOf(fxfs)),
                    job, query, ResultsOf(fxfs))
        /\ UNCHANGED <<arcs_job, cf_jobs, evalVars, summaryVars, alphaVars, expVars, queryVars>>

\* fetch_job_results.fetch_and_write_job_results: update_completed_job raises
\* NoSuchJob for a job that is not in arcs_job; otherwise the judgment of
\* every unit of the job is written
FetchAndWriteJobResults ==
    \E job \in arcs_job \cap (1..Len(cf_jobs)) :
    \E judged \in [cf_jobs[job] -> CrowdJudgments] :
    \E units \in Orders(cf_jobs[job]) :
        LET judged_qrps == [k \in 1..Len(units) |->
                              [query |-> units[k][1], result_fxf |-> units[k][2],
                               judgment |-> judged[units[k]]]]
        IN  /\ arcs_query_result' = add_judgments_for_qrps(arcs_query_result, judged_qrps)
            /\ UNCHANGED <<arcs_job, cf_jobs, arcs_group_join, insertRet, evalVars,
                           summaryVars, alphaVars, expVars, queryVars>>

\* etl.main: post_to_arcs_job, then post_to_arcs_query_result with the
\* judged pairs of the job, in the order of the dict qrps, then
\* post_to_arcs_group_join for the group of the job
EtlPostToArcsQueryResult ==
    \E job \in JobIds, P \in (SUBSET Pairs) \ {{}} :
    \E judged \in [P -> CrowdJudgments], order \in Orders(P) :
        LET qrps == [k \in 1..Len(order) |->
                       [query |-> order[k][1], result_fxf |-> order[k][2],
                        judgment |-> judged[order[k]]]]
            data == [k \in 1..Len(order) |->
                       [query |-> order[k][1], result_fxf |-> order[k][2],
                        result_position |-> order[k][2] - 1]]
            table == post_to_arcs_query_result(arcs_query_result, arcs_query_result,
                                               qrps, job)
        IN  /\ arcs_job' = arcs_job \cup {job}
            /\ arcs_query_result' = table
            /\ arcs_group_join' = post_to_arcs_group_join(arcs_group_join, table, job, data)
            /\ UNCHANGED <<cf_jobs, insertRet, evalVars, summaryVars, alphaVars, expVars,
                   queryVars>>

NextDb ==
    \/ SubmitJob
    \/ InsertIncompleteJob
    \/ InsertUnjudgedQueryResults
    \/ FetchAndWriteJobResults
    \/ EtlPostToArcsQueryResult

SpecDb == InitDb /\ [][NextDb]_vars

\* C5: once a (query, result) row holds a judgment that is not NULL, no
\* operation changes that judgment.
C5_JudgedIsImmutable ==
    [][\A r \in arcs_query_result :
          ~isnull(r.judgment) =>
              \E s \in arcs_query_result' :
                  /\ s.query = r.query
                  /\ s.result_fxf = r.result_fxf
                  /\ s.judgment = r.judgment]_vars

----------------------------------------------------------------------------
(* Calls into krippendorff_alpha.py *)

Coders == 1..NumCoders

\* the units rated: the keys of a coder's dict
Items == {"unit1", "unit2"}

\* the ratings the coders give
Ratings == {0, 1, 2}

\* the calls of the repository: the three numeric metrics on floats
\* (krippendorff_alpha.__main__), ordinal_metric on intify_floats ratings
\* (__main__) and on preprocessed int ratings (calc_iaa.get_iaa)
AlphaCalls ==
    {[metric |-> m, preprocessed |-> FALSE, convert_items |-> "float", numpy |-> n] :
        m \in {"nominal", "interval", "ratio"}, n \in BOOLEAN}
    \cup {[metric |-> "ordinal", preprocessed |-> FALSE,
           convert_items |-> "intify_floats", numpy |-> n] : n \in BOOLEAN}
    \cup {[metric |-> "ordinal", preprocessed |-> TRUE,
           convert_items |-> "int", numpy |-> n] : n \in BOOLEAN}

\* calc_iaa.read_info: per item, the list of its int ratings
Preprocessed(data) == [idx \in Items |-> RatingsOf(data, idx, "int")]

AlphaOf(data, c) ==
    krippendorff_alpha(IF c.preprocessed THEN Preprocessed(data) ELSE data,
                       Items, c.metric, c.preprocessed, c.convert_items, c.numpy)

\* the local units of that call after the filter of the units with a
\* single/no rating(s)
UnitsOf(data, c) ==
    LET units == Units(IF c.preprocessed THEN Preprocessed(data) ELSE data,
                       Items, c.preprocessed, c.convert_items)
    IN  [idx \in Retained(units) |-> units[idx]]

InitAlpha ==
    /\ alphaData \in [Coders -> [Items -> Ratings \cup {missing_items}]]
    /\ alphaCall = NoAlphaCall
    /\ alphaRet = NoRet
    /\ alphaUnits = <<>>
    /\ metricCall = NoMetricCall
    /\ metricRet = NoRet
    /\ EvalIdle
    /\ SummaryIdle
    /\ DbIdle
    /\ ExpIdle

CallKrippendorffAlpha ==
    /\ alphaRet = NoRet
    /\ \E c \in AlphaCalls :
          /\ alphaCall' = c
          /\ alphaRet' = AlphaOf(alphaData, c)
          /\ alphaUnits' = UnitsOf(alphaData, c)
    /\ UNCHANGED <<alphaData, metricCall, metricRet, evalVars, summaryVars, dbVars, expVars,
                   queryVars>>

NextAlpha == CallKrippendorffAlpha

SpecAlpha == InitAlpha /\ [][NextAlpha]_vars

\* a call of one metric on two ratings of the scale; vec: inside the
\* vectorised path, on numpy arrays
MetricCalls ==
    {c \in [metric : Metrics, a : Scale, b : Scale, vec : BOOLEAN] :
        c.vec => numpy_metric(TRUE, c.metric)}

MetricOutcome(c) ==
    LET d == Metric(c.metric, c.a, c.b)
    IN  IF d.ok THEN Float(d.val, MetricScale(c.metric))
        ELSE Outcome(IF c.vec THEN "nan" ELSE "ZeroDivisionError")

InitMetric ==
    /\ metricCall \in MetricCalls
    /\ metricRet = NoRet
    /\ alphaData = [c \in Coders |-> [i \in Items |-> missing_items]]
    /\ alphaCall = NoAlphaCall
    /\ alphaRet = NoRet
    /\ alphaUnits = <<>>
    /\ EvalIdle
    /\ SummaryIdle
    /\ DbIdle
    /\ ExpIdle

CallMetric ==
    /\ metricRet = NoRet
    /\ metricCall # NoMetricCall
    /\ metricRet' = MetricOutcome(metricCall)
    /\ UNCHANGED <<metricCall, alphaData, alphaCall, alphaRet, alphaUnits,
                   evalVars, summaryVars, dbVars, expVars, queryVars>>

NextMetric == CallMetric

SpecMetric == InitMetric /\ [][NextMetric]_vars

AlphaDone == alphaRet # NoRet

\* the ratings an item got, as the call sees them
GivenRatings(data, idx) == RatingsOf(data, idx, alphaCall.convert_items)

\* the items with two or more ratings that are not missing
TwiceRated(data) == {idx \in Items : Len(GivenRatings(data, idx)) >= 2}

\* all ratings of the twice rated items
RatedValues(data) ==
    UNION {{GivenRatings(data, idx)[k] : k \in 1..Len(GivenRatings(data, idx))} :
              idx \in TwiceRated(data)}

MetricDefined(data) ==
    \A a, b \in RatedValues(data) : Metric(alphaCall.metric, a, b).ok

\* D_e is zero: every pair of retained ratings is at distance 0
ZeroExpected(data) ==
    /\ TwiceRated(data) # {}
    /\ \A a, b \in RatedValues(data) :
          Metric(alphaCall.metric, a, b) = Distance(0)

Vectorised == alphaCall.numpy /\ alphaCall.metric \in {"nominal", "interval", "ratio"}

\* C6 as stated: with fewer than 2 units left after the filter - none, or
\* exactly one - krippendorff_alpha fails with a division by zero.
C6_FewerThanTwoUnitsFail ==
    (AlphaDone /\ Cardinality(TwiceRated(alphaData)) < 2) => ~IsNumber(alphaRet)

\* C6, amended: with no unit left after the filter krippendorff_alpha fails
\* with a division by zero; with exactly one unit left it returns a number
\* exactly when the metric is defined on the ratings of that unit and some
\* two of them are at a non-zero distance.
C6_NoUnitFails ==
    AlphaDone =>
        /\ TwiceRated(alphaData) = {} => alphaRet.kind = "ZeroDivisionError"
        /\ Cardinality(TwiceRated(alphaData)) = 1 =>
              (IsNumber(alphaRet) <=>
                  (MetricDefined(alphaData) /\ ~ZeroExpected(alphaData)))

C6_Witness ==
    /\ AlphaDone
    /\ Cardinality(TwiceRated(alphaData)) = 1
    /\ \E idx \in Items : Len(GivenRatings(alphaData, idx)) = 1
    /\ IsNumber(alphaRet)

\* C7 as stated: whenever D_e is zero krippendorff_alpha fails with a division
\* by zero, on the vectorised and on the scalar path.
C7_ZeroExpectedFails ==
    (AlphaDone /\ ZeroExpected(alphaData)) => alphaRet.kind = "ZeroDivisionError"

\* C7, amended: whenever D_e is zero krippendorff_alpha returns no number: on
\* the scalar path it fails with a division by zero, on the vectorised path
\* (numpy, with the nominal, interval or ratio metric) it returns nan.
C7_ZeroExpectedIsUndefined ==
    (AlphaDone /\ ZeroExpected(alphaData)) =>
        alphaRet.kind = IF Vectorised THEN "nan" ELSE "ZeroDivisionError"

C7_Witness ==
    /\ AlphaDone
    /\ ZeroExpected(alphaData)
    /\ Cardinality(TwiceRated(alphaData)) = 2
    /\ Vectorised
    /\ alphaRet.kind = "nan"

\* every item has at least two raters, and all raters of an item agree
PerfectAgreement(data) ==
    /\ TwiceRated(data) = Items
    /\ \A idx \in Items :
          \A k \in 1..Len(GivenRatings(data, idx)) :
              GivenRatings(data, idx)[k] = GivenRatings(data, idx)[1]

\* C8 as stated: on every dataset in which all raters of an item gave it the
\* same value, for every item, krippendorff_alpha returns 1.0.
C8_PerfectAgreementIsOne ==
    (AlphaDone /\ PerfectAgreement(alphaData)) => alphaRet = Float(1, 1)

\* C8, amended: on every such dataset on which the metric is defined and
\* some two ratings are at a non-zero distance (D_e is not zero),
\* krippendorff_alpha returns 1.0; when D_e is zero it returns no number.
C8_PerfectAgreementWithVariance ==
    (AlphaDone /\ PerfectAgreement(alphaData) /\ MetricDefined(alphaData)) =>
        IF ZeroExpected(alphaData) THEN ~IsNumber(alphaRet)
        ELSE alphaRet = Float(1, 1)

C8_Witness ==
    /\ AlphaDone
    /\ PerfectAgreement(alphaData)
    /\ MetricDefined(alphaData)
    /\ ~ZeroExpected(alphaData)
    /\ alphaRet = Float(1, 1)

MetricDone == metricRet # NoRet

\* C9 as stated: each of the four metrics gives metric(v, v) = 0 for every
\* value v of the scale 0..3.
C9_SelfDistanceZero ==
    (MetricDone /\ metricCall.a = metricCall.b) => metricRet = Float(0, 1)

\* C9, amended: nominal, interval and ordinal metric give metric(v, v) = 0
\* for every v of the scale 0..3, ratio_metric for v in 1..3;
\* ratio_metric(0, 0) divides zero by zero and gives no number.
C9_SelfDistanceZeroOffOrigin ==
    (MetricDone /\ metricCall.a = metricCall.b) =>
        IF metricCall.metric = "ratio" /\ metricCall.a = 0
        THEN metricRet.kind = IF metricCall.vec THEN "nan" ELSE "ZeroDivisionError"
        ELSE metricRet = Float(0, 1)

C9_Witness ==
    /\ MetricDone
    /\ metricCall.metric = "ratio"
    /\ metricCall.a = 3
    /\ metricCall.b = 3
    /\ metricRet = Float(0, 1)

\* the dataset without the ratings of item idx
Without(data, idx) ==
    [c \in Coders |-> [i \in Items |-> IF i = idx THEN missing_items ELSE data[c][i]]]

SingleRated(data) == {idx \in Items : Len(GivenRatings(data, idx)) = 1}

UnitsOfCall(data) ==
    Units(IF alphaCall.preprocessed THEN Preprocessed(data) ELSE data,
          Items, alphaCall.preprocessed, alphaCall.convert_items)

\* C10: an item with exactly one rating that is not missing changes neither
\* the retained units, nor the rating count N, nor the value of alpha: the
\* call returns what it returns on the dataset without that item (the same
\* number where alpha is defined, the same failure where it is not).
C10_SingleRatingItemIgnored ==
    AlphaDone =>
        \A idx \in SingleRated(alphaData) :
            LET without == Without(alphaData, idx)
            IN  /\ alphaRet = AlphaOf(without, alphaCall)
                /\ Retained(UnitsOfCall(alphaData)) = Retained(UnitsOfCall(without))
                /\ NumJudgements(UnitsOfCall(alphaData))
                       = NumJudgements(UnitsOfCall(without))

C10_Witness ==
    /\ AlphaDone
    /\ SingleRated(alphaData) # {}
    /\ IsNumber(alphaRet)
    /\ \E idx \in Items : Len(GivenRatings(alphaData, idx)) = NumCoders

----------------------------------------------------------------------------
(* krippendorff_alpha on a unit-keyed mapping *)

\* a unit-keyed mapping as a caller of the preprocessed form hands it over:
\* per item the ratings of all coders, the marker where a coder gave none
UnitLists(data) == [idx \in Items |-> [c \in Coders |-> data[c][idx]]]

\* the calls on such a mapping, the marker passed as missing_items; the
\* marker is a number, so that the metrics compute on it
UnitCalls ==
    {[metric |-> m, preprocessed |-> TRUE, convert_items |-> "int", numpy |-> FALSE] :
        m \in {"nominal", "interval", "ordinal"}}

CallKrippendorffAlphaOnUnits ==
    /\ alphaRet = NoRet
    /\ \E c \in UnitCalls :
          LET units == Units(UnitLists(alphaData), Items, TRUE, c.convert_items)
          IN  /\ alphaCall' = c
              /\ alphaRet' = krippendorff_alpha(UnitLists(alphaData), Items, c.metric,
                                                TRUE, c.convert_items, c.numpy)
              /\ alphaUnits' = [idx \in Retained(units) |-> units[idx]]
    /\ UNCHANGED <<alphaData, metricCall, metricRet, evalVars, summaryVars, dbVars, expVars,
                   queryVars>>

NextUnits == CallKrippendorffAlphaOnUnits

SpecUnits == InitAlpha /\ [][NextUnits]_vars

\* the ratings of a unit that entered the computation
Entered(idx) == {alphaUnits[idx][k] : k \in 1..Len(alphaUnits[idx])}

\* the coders who gave item idx a rating that is not the marker
RatersOf(idx) == {c \in Coders : alphaData[c][idx] # missing_items}

----------------------------------------------------------------------------
(* Two groups of one experiment: experiment.py and summarize_results.main *)

AllFxfs == <<"aaaa-0000", "bbbb-5555">>

\* the results one group returns for one query, in rank order
ResultLists ==
    {<<>>, <<"aaaa-0000">>, <<"aaaa-0000", "bbbb-5555">>, <<"bbbb-5555", "aaaa-0000">>}

\* the judgment of each fxf for one query: NaN is not judged yet
PairJudgments ==
    {[f \in {"aaaa-0000", "bbbb-5555"} |-> IF f = "aaaa-0000" THEN 2 ELSE j] :
        j \in {NaN, 0, 2}}

\* the rows group_queries_and_judgments_query returns for one group
GroupRows(lists, jdg) ==
    UNION {IF lists[q] = <<>> THEN {ZeroResultRow(q)}
           ELSE {[query |-> q, domain |-> Domain, result_fxf |-> lists[q][k],
                  result_position |-> k - 1, judgment |-> jdg[q][lists[q][k]]] :
                     k \in 1..Len(lists[q])} : q \in Queries}

\* != on a column of objects: a cell that is None differs from every cell
Ne(x, y) == x = None \/ y = None \/ x # y

\* Group.data: the rows of a group as experiment.py reads them
GroupData(df) ==
    {[domain |-> r.domain, query |-> r.query, fxf |-> r.result_fxf,
      position |-> r.result_position] : r \in {x \in df : x.result_fxf # None}}

\* the judgments of the pairs of a query, best first, as query_ideals_query
\* aggregates them
ExpIdeals ==
    LET pairs(q) == SelectSeq(AllFxfs, LAMBDA f :
                        \E j \in judged_results_df : j.query = q /\ j.fxf = f)
        jdg(q, f) == (CHOOSE j \in judged_results_df : j.query = q /\ j.fxf = f).judgment
        row(q) == [query |-> q, domain |-> Domain,
                   judgments |-> SortedDesc([k \in 1..Len(pairs(q)) |->
                                                jdg(q, pairs(q)[k])])]
    IN  {i \in {row(q) : q \in Queries} : i.judgments # <<>>}

InitExperiment ==
    /\ \E l1 \in [Queries -> ResultLists], l2 \in [Queries -> ResultLists],
          jdg \in [Queries -> PairJudgments] :
          /\ group1 = GroupRows(l1, jdg)
          /\ group2 = GroupRows(l2, jdg)
          /\ judged_results_df =
                {[domain |-> r.domain, query |-> r.query, fxf |-> r.result_fxf,
                  judgment |-> r.judgment] :
                    r \in {x \in GroupRows(l1, jdg) \cup GroupRows(l2, jdg) :
                              ~isnull(x.judgment)}}
    /\ sigArgs = NoSigArgs
    /\ expStats = NoExpStats
    /\ EvalIdle
    /\ SummaryIdle
    /\ DbIdle
    /\ AlphaIdle

\* the rows of a frame of experiment.py in the order of their positions
RECURSIVE ByPosition(_)
ByPosition(df) ==
    IF df = {} THEN <<>>
    ELSE LET r == CHOOSE x \in df : \A y \in df : x.position <= y.position
         IN  <<r>> \o ByPosition(df \ {r})

\* Group.per_query_dcg: one row per query text, in the order of the sorted keys
per_query_dcg(judged_group_df) ==
    LET present == SelectSeq([q \in 1..NumQueries |-> q], LAMBDA q :
                       \E r \in judged_group_df : r.query = q)
        rows(q) == ByPosition({r \in judged_group_df : r.query = q})
    IN  [k \in 1..Len(present) |->
            [query |-> present[k],
             keys  |-> {<<r.query, r.domain>> :
                           r \in {x \in judged_group_df : x.query = present[k]}},
             positions |-> Column(rows(present[k]), "position"),
             dcg   |-> dcg(Column(rows(present[k]), "judgment"),
                           Column(rows(present[k]), "position"))]]

\* Group.stats
Group_stats(data, judged) ==
    LET merge(r) == {j \in judged : j.domain = r.domain /\ j.query = r.query
                                     /\ j.fxf = r.fxf}
        merged == UNION {IF merge(r) = {}
                         THEN {[domain |-> r.domain, query |-> r.query, fxf |-> r.fxf,
                                position |-> r.position, judgment |-> NaN]}
                         ELSE {[domain |-> r.domain, query |-> r.query, fxf |-> r.fxf,
                                position |-> r.position, judgment |-> j.judgment] :
                                  j \in merge(r)} : r \in data}
        num_unjudged == Cardinality({r \in merged : isnull(r.judgment)})
        judged_group_df == {r \in merged : ~isnull(r.judgment)}
        dcgs_df == per_query_dcg(judged_group_df)
    IN  [dcgs |-> dcgs_df,
         avg_dcg |-> IF Len(dcgs_df) = 0 THEN Outcome("nan")
                     ELSE Float(SumSeq(Column(dcgs_df, "dcg")), Len(dcgs_df)),
         num_irrelevant |-> Cardinality({r \in judged_group_df : r.judgment = 0}),
         oddballs |-> {dcgs_df[k].query : k \in {i \in 1..Len(dcgs_df) :
                                                    dcgs_df[i].dcg = 0}},
         unjudged_qrps |-> num_unjudged]

\* experiment._count_num_diff
experiment_count_num_diff(group1_df, group2_df) ==
    LET merged == {<<a, b>> \in group1_df \X group2_df :
                      a.domain = b.domain /\ a.query = b.query
                      /\ a.position = b.position}
    IN  Cardinality({m \in merged : m[1].fxf # m[2].fxf})

\* the difference of two means; a mean that is not a number gives nan
Minus(a, b) ==
    IF IsNumber(a) /\ IsNumber(b) THEN AddFloat(a, Float(-b.num, b.den))
    ELSE IF a.kind = "inf" /\ IsNumber(b) THEN Outcome("inf")
    ELSE IF IsNumber(a) /\ b.kind = "inf" THEN Outcome("inf")
    ELSE Outcome("nan")

\* the vectors as is_statistically_significant receives them: each score
\* with the (query, domain) pairs of the rows it was computed from
Scores(rows, c) == [k \in 1..Len(rows) |-> [keys |-> rows[k].keys, score |-> rows[k][c]]]

\* Experiment.stats, on two groups that each have a judged result
ExperimentStats ==
    /\ expStats = NoExpStats
    /\ LET group1_stats == Group_stats(GroupData(group1), judged_results_df)
           group2_stats == Group_stats(GroupData(group2), judged_results_df)
           num_diff == experiment_count_num_diff(GroupData(group1), GroupData(group2))
           dcg_delta == Minus(group1_stats.avg_dcg, group2_stats.avg_dcg)
           tested == dcg_delta # Float(0, 1)
       IN  /\ Len(group1_stats.dcgs) > 0
           /\ Len(group2_stats.dcgs) > 0
           /\ sigArgs' = IF tested
                         THEN [called |-> TRUE,
                               g1 |-> Scores(group1_stats.dcgs, "dcg"),
                               g2 |-> Scores(group2_stats.dcgs, "dcg")]
                         ELSE NoSigArgs
           /\ expStats' = [kind |-> "Experiment.stats",
                           keys |-> {"group1", "group2", "diffs"}
                                    \cup IF tested
                                         THEN {"statistically_significant", "dcg_delta",
                                               "p_value"}
                                         ELSE {},
                           diffs |-> num_diff,
                           unique_qrps |-> 0,
                           delta |-> dcg_delta]
    /\ UNCHANGED <<group1, group2, judged_results_df, evalVars, summaryVars, dbVars,
                   alphaVars, queryVars>>

\* summarize_results._count_num_diff: the first element of its result;
\* merge matches the rows whose keys are equal, null keys among themselves;
\* != of two columns of objects is True wherever either cell is null
total_differences(group1_df, group2_df) ==
    LET merged == {<<a, b>> \in group1_df \X group2_df :
                      a.domain = b.domain /\ a.query = b.query
                      /\ a.result_position = b.result_position}
    IN  Cardinality({m \in merged : Ne(m[1].result_fxf, m[2].result_fxf)})

\* the columns of the frames in the order group_queries_and_judgments_query
\* selects them
selects == <<"query", "result_fxf", "result_position", "judgment", "domain">>

\* (row[0], row[1], row[2]) of a record of the frame of group g; a position
\* that is nan is equal to no other value, its own copies included: it goes
\* with the identity of its record
qrp(row, g) ==
    LET cell(k) == row[selects[k]]
    IN  <<cell(1), cell(2),
          [val |-> cell(3),
           nan |-> IF isnull(cell(3)) THEN <<g, row.query>> ELSE <<0, 0>>]>>

\* summarize_results._count_num_diff: the second element of its result
num_qrps_diff(group1_df, group2_df) ==
    LET group_1_qrps == {qrp(row, 1) : row \in group1_df}
        group_2_qrps == {qrp(row, 2) : row \in group2_df}
    IN  Cardinality(group_1_qrps \ group_2_qrps)

\* the inner join of is_stat_sig on (query, domain), in the order of the keys
RECURSIVE MergedSeq(_)
MergedSeq(merged) ==
    IF merged = {} THEN <<>>
    ELSE LET m == CHOOSE x \in merged : \A y \in merged : x[1].query <= y[1].query
         IN  <<m>> \o MergedSeq(merged \ {m})

\* summarize_results.is_stat_sig: the two columns it hands over
is_stat_sig(group_1_ndcgs, group_2_ndcgs) ==
    LET merged == MergedSeq({<<a, b>> \in group_1_ndcgs \X group_2_ndcgs :
                                a.query = b.query /\ a.domain = b.domain})
    IN  [called |-> TRUE,
         g1 |-> [k \in 1..Len(merged) |->
                    [keys |-> {<<merged[k][1].query, merged[k][1].domain>>},
                     score |-> merged[k][1].ndcg]],
         g2 |-> [k \in 1..Len(merged) |->
                    [keys |-> {<<merged[k][2].query, merged[k][2].domain>>},
                     score |-> merged[k][2].ndcg]]]

\* is_stat_sig on the per-query scores of the two groups
IsStatSig ==
    /\ expStats = NoExpStats
    /\ LET ndcgs_1 == stats_ndcgs(group1, ExpIdeals).at_5
           ndcgs_2 == stats_ndcgs(group2, ExpIdeals).at_5
       IN  /\ ndcgs_1.kind = "DataFrame"
           /\ ndcgs_2.kind = "DataFrame"
           /\ sigArgs' = is_stat_sig(ndcgs_1.rows, ndcgs_2.rows)
           /\ expStats' = [kind |-> "is_stat_sig", keys |-> {}, diffs |-> 0,
                           unique_qrps |-> 0, delta |-> Outcome("none")]
    /\ UNCHANGED <<group1, group2, judged_results_df, evalVars, summaryVars, dbVars,
                   alphaVars, queryVars>>

\* summarize_results.main: the record it prints, or the failure of stats
SummarizeMain ==
    /\ expStats = NoExpStats
    /\ LET stats_1 == stats(group1, ExpIdeals)
           stats_2 == stats(group2, ExpIdeals)
       IN  expStats' =
              IF stats_1.kind # "dict"
              THEN [kind |-> stats_1.kind, keys |-> {}, diffs |-> 0, unique_qrps |-> 0,
                    delta |-> Outcome("none")]
              ELSE IF stats_2.kind # "dict"
              THEN [kind |-> stats_2.kind, keys |-> {}, diffs |-> 0, unique_qrps |-> 0,
                    delta |-> Outcome("none")]
              ELSE [kind |-> "main",
                    keys |-> {"group1", "group2", "num_total_diffs", "num_unique_qrps",
                              "ndcg_delta"},
                    diffs |-> total_differences(group1, group2),
                    unique_qrps |-> num_qrps_diff(group1, group2),
                    delta |-> Minus(stats_2.avg_ndcg_at_5, stats_1.avg_ndcg_at_5)]
    /\ sigArgs' = NoSigArgs
    /\ UNCHANGED <<group1, group2, judged_results_df, evalVars, summaryVars, dbVars,
                   alphaVars, queryVars>>

NextExperiment == ExperimentStats \/ IsStatSig \/ SummarizeMain

SpecExperiment == InitExperiment /\ [][NextExperiment]_vars

ExpDone == expStats # NoExpStats

\* C13: every call of is_statistically_significant receives two vectors of
\* equal length, and the i-th scores of the two belong to the same single
\* (query, domain) pair.
C13_PairedVectors ==
    sigArgs.called =>
        /\ Len(sigArgs.g1) = Len(sigArgs.g2)
        /\ \A k \in 1..Min(Len(sigArgs.g1), Len(sigArgs.g2)) :
              /\ sigArgs.g1[k].keys = sigArgs.g2[k].keys
              /\ Cardinality(sigArgs.g1[k].keys) = 1

----------------------------------------------------------------------------
(* The aggregated judgment of a pair and the answers it is the average of *)

\* the answers of the raters to one pair; <<>>: not judged yet. The lists
\* have a whole average, as the judgments of the model are whole
RawChoices ==
    {<<>>, <<0>>, <<0, 0>>, <<-1, -1>>, <<1>>, <<2, 2>>, <<0, 0, 3, 3, 3, 3>>}

\* download_crowdflower.extract: the judgment is the average of the answers
Average(res) == IF res = <<>> THEN NaN ELSE SumSeq(res) \div Len(res)

\* the number of raters who answered 0
count(res, x) == Cardinality({k \in 1..Len(res) : res[k] = x})

\* a group in which every query has a result at each sample position
InitRaw ==
    /\ \E rel \in [Queries \X SamplePositions -> RawChoices] :
          /\ relevance = rel
          /\ printed = NoPrinted
          /\ judged_data =
                {[query |-> q, domain |-> Domain, result_fxf |-> FxfAt(p),
                  result_position |-> p, judgment |-> Average(rel[<<q, p>>])] :
                    q \in Queries, p \in SamplePositions}
          /\ ideals =
                {i \in {IdealsRow(q,
                           {[query |-> q, domain |-> Domain, result_fxf |-> FxfAt(p),
                             result_position |-> p,
                             judgment |-> Average(rel[<<q, p>>])] :
                               p \in SamplePositions}, <<>>) : q \in Queries} :
                    i.judgments # <<>>}
    /\ statsNdcgs = NoNdcgs
    /\ statsRet = NoStats
    /\ EvalIdle
    /\ DbIdle
    /\ AlphaIdle
    /\ ExpIdle

SpecRaw == InitRaw /\ [][NextSummary]_vars

\* error_analysis.get_irrelevant_qrps: the rows that more than one rater
\* answered with 0
get_irrelevant_qrps ==
    {r \in judged_data : count(relevance[<<r.query, r.result_position>>], 0) >= 2}

\* C14: num_irrelevant of stats is the number of result rows to which two
\* or more raters assigned judgment 0, whatever their aggregated judgment.
C14_IrrelevantByConsensus ==
    (StatsDone /\ statsRet.kind = "dict") =>
        statsRet.num_irrelevant = Cardinality(get_irrelevant_qrps)

\* every query of the group returned zero results
AllZeroResults ==
    /\ judged_data # {}
    /\ \A r \in judged_data :
          r.result_fxf = None /\ isnull(r.result_position) /\ isnull(r.judgment)

\* C15: stats on a group in which every query returned zero results
\* completes and returns a summary record.
C15_AllZeroResultsCompletes ==
    (StatsDone /\ AllZeroResults) => statsRet.kind = "dict"

\* the rows that are left once the zero-result rows are filtered out
WithResult == {r \in judged_data : r.result_fxf # None}

\* C16: per_query_ndcg on a result set with no rows returns None: it
\* neither returns a table of scores nor fails.
C16_NoRowsGiveNone ==
    (StatsDone /\ WithResult = {}) =>
        /\ statsNdcgs.at_5.kind = "None"
        /\ statsNdcgs.at_10.kind = "None"

----------------------------------------------------------------------------
(* ndcg of a sequence of equal judgments *)

\* the call of C17: ndcg(J) with default indices and default ideal, J not
\* empty and all its entries equal
C17_Call ==
    /\ EvalDone
    /\ evalCall.fn = "ndcg"
    /\ ~evalCall.hasIndices
    /\ ~evalCall.hasIdeal
    /\ Len(evalCall.judgments) > 0
    /\ \A k \in 1..Len(evalCall.judgments) : evalCall.judgments[k] = evalCall.judgments[1]

\* C17 as stated: ndcg(J) of a non-empty J whose entries are all equal is
\* exactly 1.0.
C17_AllEqualIsOne == C17_Call => evalRet = Float(1, 1)

\* C17, amended: ndcg(J) of a non-empty J whose entries are all equal and at
\* least 1 is exactly 1.0.
C17_AllEqualRelevantIsOne ==
    (C17_Call /\ evalCall.judgments[1] >= 1) => evalRet = Float(1, 1)

C17_Witness ==
    /\ C17_Call
    /\ Len(evalCall.judgments) = 2
    /\ evalCall.judgments[1] = 2
    /\ evalRet = Float(1, 1)

----------------------------------------------------------------------------
(* The comparison of the result sets of two groups *)

\* the query-result pairs of a group: (domain, query, result identifier)
QueryResultPairs(df) ==
    {<<r.domain, r.query, r.result_fxf>> : r \in {x \in df : x.result_fxf # None}}

\* the number of rows of each (query, domain) pair of a group
ResultCounts(df) ==
    [key \in Keys(df) |-> Cardinality({r \in GroupOf(df, key) : r.result_fxf # None})]

MainDone == expStats.kind = "main"

\* C18: num_unique_qrps is the number of (domain, query, result identifier)
\* pairs of the first group that the second group lacks, wherever the two
\* groups rank them; for groups with the same queries and as many results for
\* each, it is the same whichever group comes first.
C18_UniquePairs ==
    MainDone =>
        /\ expStats.unique_qrps =
              Cardinality(QueryResultPairs(group1) \ QueryResultPairs(group2))
        /\ ResultCounts(group1) = ResultCounts(group2) =>
              expStats.unique_qrps = num_qrps_diff(group2, group1)

\* the (domain, query, result_position) slots a group fills
Slots(df) ==
    {<<r.domain, r.query, r.result_position>> : r \in {x \in df : x.result_fxf # None}}

\* the result identifiers a group has in a slot
FilledWith(df, slot) ==
    {r.result_fxf : r \in {x \in df : /\ x.result_fxf # None
                                       /\ <<x.domain, x.query, x.result_position>> = slot}}

\* the slots filled in both groups, with different result identifiers
DifferingSlots(df1, df2) ==
    {slot \in Slots(df1) \cap Slots(df2) : FilledWith(df1, slot) # FilledWith(df2, slot)}

ExperimentDone == expStats.kind = "Experiment.stats"

\* C19: num_total_diffs of main and diffs of Experiment.stats are the number
\* of (domain, query, result_position) slots filled in both groups with
\* different result identifiers, and the number is the same when the two
\* groups are swapped.
C19_DifferingSlots ==
    /\ MainDone =>
          /\ expStats.diffs = Cardinality(DifferingSlots(group1, group2))
          /\ expStats.diffs = total_differences(group2, group1)
    /\ ExperimentDone =>
          /\ expStats.diffs = Cardinality(DifferingSlots(group1, group2))
          /\ expStats.diffs = experiment_count_num_diff(GroupData(group2),
                                                        GroupData(group1))

\* C20: every comparison of two groups runs the paired significance test,
\* and the record it outputs contains statistically_significant and p_value.
C20_AlwaysTested ==
    (MainDone \/ ExperimentDone) =>
        /\ sigArgs.called
        /\ {"statistically_significant", "p_value"} \subseteq expStats.keys

----------------------------------------------------------------------------
(* Queries whose NDCG is undefined, in stats and in print_ndcg *)

\* download_crowdflower.extract: the judged results of the group
Extracted(df) == {r \in df : r.result_fxf # None /\ ~isnull(r.judgment)}

\* download_crowdflower.print_ndcg, for the one domain of the group
print_ndcg(extracted) ==
    LET judgments(q) ==
            SelectSeq(Column(RowSeq({r \in extracted : r.query = q}), "judgment"),
                      LAMBDA j : j > -1)
        scored == {q \in {r.query : r \in extracted} :
                      Len(judgments(q)) > 1 /\ SumSeq(judgments(q)) > 0}
        _ndcg(q) == ndcg(judgments(q), FALSE, <<>>, FALSE, <<>>, FALSE)
        dom_ndcgs == {[key |-> q, val |-> _ndcg(q)] :
                         q \in {x \in scored : _ndcg(x).kind # "ZeroDivisionError"}}
        all_ndcgs_lt_ones == {n \in dom_ndcgs : n.val.num < n.val.den}
        dom_sum == SumFloats(dom_ndcgs)
        all_sum == SumFloats(all_ndcgs_lt_ones)
    IN  [kind |-> IF all_ndcgs_lt_ones = {} THEN "ZeroDivisionError" ELSE "printed",
         dom_ndcgs |-> dom_ndcgs,
         dom_ndcg |-> IF dom_ndcgs = {} THEN Outcome("none")
                      ELSE Float(dom_sum.num, dom_sum.den * Cardinality(dom_ndcgs)),
         all_ndcg |-> IF all_ndcgs_lt_ones = {} THEN Outcome("ZeroDivisionError")
                      ELSE Float(all_sum.num,
                                 all_sum.den * Cardinality(all_ndcgs_lt_ones))]

PrintNdcg ==
    /\ printed = NoPrinted
    /\ statsRet = NoStats
    /\ printed' = print_ndcg(Extracted(judged_data))
    /\ UNCHANGED <<judged_data, ideals, statsNdcgs, statsRet, relevance, evalVars, dbVars,
                   alphaVars, expVars, queryVars>>

NextAggregate == CallStats \/ PrintNdcg

SpecAggregate == InitSummary /\ [][NextAggregate]_vars

PrintDone == printed # NoPrinted

\* the ideal DCG of a pair at cutoff K, at the positions of its scored rows
IdealDcg(key, K) ==
    dcg(Take(IdealsOf(ideals, key), K),
        Column(RowSeq(BelowCutoff(Scored(key), K)), "result_position"))

\* the pairs whose NDCG@K is undefined
UndefinedAt(K) ==
    {key \in Keys(judged_data) :
        BelowCutoff(Scored(key), K) # {} /\ IdealDcg(key, K) = 0}

\* the mean of the NDCG@K scores of the other pairs
MeanOfDefined(table, K) ==
    LET rest == {[key |-> <<s.query, s.domain>>, val |-> s.ndcg] :
                    s \in {x \in table.rows : <<x.query, x.domain>> \notin UndefinedAt(K)}}
        sum  == SumFloats(rest)
    IN  IF rest = {} THEN Outcome("nan")
        ELSE Float(sum.num, sum.den * Cardinality(rest))

\* the queries print_ndcg has only judgments 0 for
AllZeroQueries ==
    {q \in {r.query : r \in Extracted(judged_data)} :
        /\ \E r \in Extracted(judged_data) : r.query = q /\ r.judgment = 0
        /\ \A r \in Extracted(judged_data) : r.query = q => r.judgment <= 0}

\* C21: a query whose ideal DCG is zero does not make stats fail and gets no
\* number for a score: the mean NDCG that stats reports is the mean over the
\* other queries; print_ndcg leaves such a query out of its scores and
\* reports the mean of the others.
C21_UndefinedExcluded ==
    /\ \A K \in {5, 10} :
          (StatsDone /\ UndefinedAt(K) # {}) =>
              LET table == IF K = 5 THEN statsNdcgs.at_5 ELSE statsNdcgs.at_10
                  avg == IF K = 5 THEN statsRet.avg_ndcg_at_5 ELSE statsRet.avg_ndcg_at_10
              IN  /\ statsRet.kind = "dict"
                  /\ \A key \in UndefinedAt(K) :
                        \A sc \in ScoresOf(table, key) : ~IsNumber(sc.ndcg)
                  /\ avg = MeanOfDefined(table, K)
    /\ PrintDone =>
          /\ \A q \in AllZeroQueries : \A n \in printed.dom_ndcgs : n.key # q
          /\ printed.dom_ndcgs # {} => IsNumber(printed.dom_ndcg)

C21_Witness ==
    /\ StatsDone
    /\ UndefinedAt(5) # {}
    /\ Keys(statsNdcgs.at_5.rows) \ UndefinedAt(5) # {}
    /\ IsNumber(statsRet.avg_ndcg_at_5)
    /\ statsRet.avg_ndcg_at_5.num > 0

----------------------------------------------------------------------------
(* One query text under two domains: Group.stats of experiment.py *)

OtherDomain == "data.seattle.gov"

Domains == {Domain, OtherDomain}

\* the rows of a group whose queries were run against both domains
DomainRows(lists, jdg) ==
    UNION {IF lists[q, d] = <<>> THEN {[ZeroResultRow(q) EXCEPT !.domain = d]}
           ELSE {[query |-> q, domain |-> d, result_fxf |-> lists[q, d][k],
                  result_position |-> k - 1, judgment |-> jdg[q][lists[q, d][k]]] :
                     k \in 1..Len(lists[q, d])} : q \in Queries, d \in Domains}

InitDomains ==
    /\ \E lists \in [Queries \X Domains -> ResultLists],
          jdg \in [Queries -> PairJudgments] :
          /\ group1 = DomainRows(lists, jdg)
          /\ judged_results_df =
                {[domain |-> r.domain, query |-> r.query, fxf |-> r.result_fxf,
                  judgment |-> r.judgment] :
                    r \in {x \in DomainRows(lists, jdg) : ~isnull(x.judgment)}}
    /\ group2 = {}
    /\ sigArgs = NoSigArgs
    /\ expStats = NoExpStats
    /\ EvalIdle
    /\ SummaryIdle
    /\ DbIdle
    /\ AlphaIdle

\* Group.stats of the first group
GroupStats ==
    /\ expStats = NoExpStats
    /\ expStats' = [kind |-> "Group.stats",
                    stats |-> Group_stats(GroupData(group1), judged_results_df)]
    /\ UNCHANGED <<group1, group2, judged_results_df, sigArgs, evalVars, summaryVars,
                   dbVars, alphaVars, queryVars>>

NextDomains == GroupStats

SpecDomains == InitDomains /\ [][NextDomains]_vars

GroupStatsDone == expStats.kind = "Group.stats"

\* no position occurs twice in the sequence
Distinct(seq) == \A i, j \in DOMAIN seq : i # j => seq[i] # seq[j]

\* C22: every per-query DCG is computed from the rows of exactly one
\* (domain, query) pair of the group, so no two rows that enter the same score
\* share a result position, also when the same query text occurs under two
\* domains.
C22_OnePairPerScore ==
    GroupStatsDone =>
        \A k \in DOMAIN expStats.stats.dcgs :
            /\ Cardinality(expStats.stats.dcgs[k].keys) = 1
            /\ Distinct(expStats.stats.dcgs[k].positions)

----------------------------------------------------------------------------
(* Rows and ideal judgments beyond the cutoff of per_query_ndcg *)

\* judgments of the query's results recorded outside the group: none, or
\* enough of them for the ideal sequence to be longer than the cutoff 5
LongIdeals == {<<>>, <<3, 3, 2, 2, 1>>}

InitCutoff ==
    /\ \E f \in [Queries -> ResultChoices], e \in [Queries -> LongIdeals] :
          /\ judged_data = UNION {QueryRows(q, f[q]) : q \in Queries}
          /\ ideals = {i \in {IdealsRow(q, QueryRows(q, f[q]), e[q]) : q \in Queries} :
                          i.judgments # <<>>}
    /\ statsNdcgs = NoNdcgs
    /\ statsRet = NoStats
    /\ relevance = <<>>
    /\ printed = NoPrinted
    /\ EvalIdle
    /\ DbIdle
    /\ AlphaIdle
    /\ ExpIdle

SpecCutoff == InitCutoff /\ [][NextSummary]_vars

\* the (position, judgment) cells of the scored rows of a pair below the cutoff
CellsBelow(key, K) ==
    {<<r.result_position, r.judgment>> : r \in BelowCutoff(Scored(key), K)}

\* the first K ideal judgments of a pair
IdealHead(key, K) ==
    IF key \in Keys(ideals) THEN SubSeq(IdealsOf(ideals, key), 1, Min(K, Len(IdealsOf(ideals, key))))
    ELSE <<>>

\* the (dcg, ndcg) scores of a pair
DcgNdcg(table, key) == {<<s.dcg, s.ndcg>> : s \in ScoresOf(table, key)}

\* C23: for a (query, domain) pair with a row at a position below K, the
\* DCG@K and NDCG@K of per_query_ndcg depend only on the rows below K and on
\* the first K ideal judgments: two pairs that agree on these have the same
\* scores, whatever rows they have at positions >= K and whatever ideal
\* judgments follow the first K.
C23_CutoffFrame ==
    (StatsDone /\ statsRet.kind = "dict") =>
        \A K \in {5, 10} :
            LET table == IF K = 5 THEN statsNdcgs.at_5 ELSE statsNdcgs.at_10
            IN  \A k1, k2 \in Keys(judged_data) :
                    (/\ CellsBelow(k1, K) # {}
                     /\ CellsBelow(k1, K) = CellsBelow(k2, K)
                     /\ IdealHead(k1, K) = IdealHead(k2, K))
                        => /\ DcgNdcg(table, k1) = DcgNdcg(table, k2)
                           /\ Cardinality(DcgNdcg(table, k1)) = 1

\* two pairs with the same rows below 5 and the same first 5 ideal judgments,
\* one of them with a relevant row at position 5 and a longer ideal sequence
C23_Witness ==
    /\ StatsDone
    /\ statsRet.kind = "dict"
    /\ \E k1, k2 \in Keys(judged_data) :
          /\ CellsBelow(k1, 5) # {}
          /\ CellsBelow(k1, 5) = CellsBelow(k2, 5)
          /\ IdealHead(k1, 5) = IdealHead(k2, 5)
          /\ IdealsOf(ideals, k1) # IdealsOf(ideals, k2)
          /\ Len(IdealsOf(ideals, k1)) > 5
          /\ \E r \in Scored(k1) : r.result_position = 5 /\ r.judgment > 0
          /\ \A r \in Scored(k2) : r.result_position < 5
          /\ \E s \in ScoresOf(statsNdcgs.at_5, k1) : IsNumber(s.ndcg) /\ s.ndcg.num > 0

----------------------------------------------------------------------------
(* The default arguments of ndcg *)

\* C24: for a non-empty J with non-zero ideal DCG, ndcg(J) equals
\* ndcg(J, indices = 0..len(J)-1, ideal_judgments = J sorted descending); when
\* an ideal sequence is supplied, the denominator is the DCG of the supplied
\* sequence at the indices of the call, not that of J's own sorted order.
C24_Defaults ==
    (EvalDone /\ evalCall.fn = "ndcg" /\ Len(evalCall.judgments) > 0) =>
        LET J == evalCall.judgments
        IN  /\ (/\ ~evalCall.hasIndices
                /\ ~evalCall.hasIdeal
                /\ dcg(SortedDesc(J), Range(Len(J))) # 0)
                   => evalRet = ndcg(J, TRUE, Range(Len(J)), TRUE, SortedDesc(J),
                                     evalCall.np)
            /\ (evalCall.hasIdeal /\ dcg(evalCall.ideal, EvalIdx) # 0)
                   => evalRet = Float(dcg(J, EvalIdx), dcg(evalCall.ideal, EvalIdx))

\* ndcg(J) of a J that is not in descending order: a number below 1
C24_Witness ==
    /\ EvalDone
    /\ evalCall.fn = "ndcg"
    /\ ~evalCall.hasIndices
    /\ ~evalCall.hasIdeal
    /\ Len(evalCall.judgments) = 2
    /\ evalCall.judgments[1] = 0
    /\ evalCall.judgments[2] = 2
    /\ IsNumber(evalRet)
    /\ evalRet.num < evalRet.den

----------------------------------------------------------------------------
(* dcg on IEEE doubles: the order of the additions *)

\* the number of (judgment, index) pairs of a call of dcg
MaxPairs == 3

\* A double d with 1/4 <= d < 64, and 0, is the integer d * 2^54, held in
\* three limbs of 20 bits <<high, middle, low>>.
Limb == 2^20

Zero == <<0, 0, 0>>

\* (2**j - 1) / log(i + 2, 2) in doubles, for j = 1..3 (rows), i = 0..3
TermTable ==
    << << <<16384, 0, 0>>, <<10337, 160518, 682618>>, <<8192, 0, 0>>,
          <<7056, 214672, 331635>> >>,
       << <<49152, 0, 0>>, <<31011, 481555, 999276>>, <<24576, 0, 0>>,
          <<21168, 644016, 994908>> >>,
       << <<114688, 0, 0>>, <<72360, 75054, 584016>>, <<57344, 0, 0>>,
          <<49393, 454130, 224296>> >> >>

Term(j, i) == IF j = 0 THEN Zero ELSE TermTable[j][i + 1]

\* propagate the carries of the limbs
Carry(x) ==
    LET m == x[2] + (x[3] \div Limb)
    IN  <<x[1] + (m \div Limb), m % Limb, x[3] % Limb>>

RECURSIVE Log2(_)
Log2(n) == IF n <= 1 THEN 0 ELSE 1 + Log2(n \div 2)

\* the position of the leading bit
TopBit(x) ==
    IF x[1] > 0 THEN 40 + Log2(x[1])
    ELSE IF x[2] > 0 THEN 20 + Log2(x[2])
    ELSE Log2(x[3])

\* the unit in the last place of a double
Ulp(x) == IF TopBit(x) <= 52 THEN 1 ELSE 2^(TopBit(x) - 52)

\* rounding to 53 significant bits, to nearest, ties to even
RoundDouble(x) ==
    LET q   == Ulp(x)
        low == x[3] % q
        odd == (x[3] \div q) % 2 = 1
    IN  IF 2 * low > q \/ (2 * low = q /\ odd)
        THEN Carry(<<x[1], x[2], x[3] - low + q>>)
        ELSE <<x[1], x[2], x[3] - low>>

\* a + b on doubles
AddDouble(a, b) == RoundDouble(Carry(<<a[1] + b[1], a[2] + b[2], a[3] + b[3]>>))

\* sum(list): the additions from the left, starting at 0
RECURSIVE SumDoubles(_, _)
SumDoubles(acc, terms) ==
    IF terms = <<>> THEN acc
    ELSE SumDoubles(AddDouble(acc, Head(terms)), Tail(terms))

\* dcg, in doubles
dcg_double_by_place(judgments, indices) ==
    LET n == Min(Len(judgments), Len(indices))
    IN  SumDoubles(Zero, [k \in 1..n |-> Term(judgments[k], k - 1)])
dcg_double(judgments, indices) ==
    LET n == Min(Len(judgments), Len(indices))
    IN  SumDoubles(Zero, [k \in 1..n |-> Term(judgments[k], indices[k])])

\* the orders of n pairs
PairOrders(n) == {p \in [1..n -> 1..n] : \A a, b \in 1..n : a # b => p[a] # p[b]}

Permuted(seq, p) == [k \in 1..Len(p) |-> seq[p[k]]]

\* the positions of a result list, from the top
Ascending(n) ==
    {i \in [1..n -> Positions] : \A a, b \in 1..n : a < b => i[a] < i[b]}

InitPermute ==
    /\ \E n \in 0..MaxPairs :
          \E j \in [1..n -> Scale], i \in Ascending(n) :
             evalCall = [fn |-> "dcg", judgments |-> j, hasIndices |-> TRUE,
                         indices |-> i, hasIdeal |-> FALSE, ideal |-> <<>>,
                         np |-> FALSE]
    /\ evalRet = NoRet
    /\ dcgRets = <<>>
    /\ SummaryIdle
    /\ DbIdle
    /\ AlphaIdle
    /\ ExpIdle

\* a call of dcg on the pairs of evalCall, taken in some order
CallDcg ==
    /\ evalCall.fn = "dcg"
    /\ Len(dcgRets) < 2
    /\ \E p \in PairOrders(Len(evalCall.judgments)) :
          dcgRets' = Append(dcgRets,
                            [order |-> p,
                             ret |-> dcg_double(Permuted(evalCall.judgments, p),
                                                Permuted(evalCall.indices, p))])
    /\ UNCHANGED <<evalCall, evalRet, summaryVars, dbVars, alphaVars, expVars, queryVars>>

NextPermute == CallDcg

SpecPermute == InitPermute /\ [][NextPermute]_vars

\* |a - b| <= bound, for a bound below 2^20
Within(a, b, bound) ==
    /\ Abs(a[1] - b[1]) <= 1
    /\ Abs((a[1] - b[1]) * Limb + (a[2] - b[2])) <= 1
    /\ Abs(((a[1] - b[1]) * Limb + (a[2] - b[2])) * Limb + (a[3] - b[3])) <= bound

\* the larger of two units in the last place
MaxUlp(a, b) == IF Ulp(a) >= Ulp(b) THEN Ulp(a) ELSE Ulp(b)

\* C25 as stated: dcg is unchanged when the (judgment, index) pairs are
\* permuted together, and two calls on the same input give the same result.
C25_PermutationInvariant ==
    \A a, b \in DOMAIN dcgRets : dcgRets[a].ret = dcgRets[b].ret

\* C25, amended: dcg is unchanged up to floating-point rounding when the
\* pairs are permuted together: for judgments >= 0 the results of two orders
\* of n pairs differ by at most n - 1 units in the last place and are
\* identical for up to two pairs; two calls on the same input in the same
\* order give the same result.
C25_PermutationUpToRounding ==
    \A a, b \in DOMAIN dcgRets :
        LET n == Len(evalCall.judgments)
        IN  /\ n >= 1 => Within(dcgRets[a].ret, dcgRets[b].ret,
                                (n - 1) * MaxUlp(dcgRets[a].ret, dcgRets[b].ret))
            /\ n <= 2 => dcgRets[a].ret = dcgRets[b].ret
            /\ dcgRets[a].order = dcgRets[b].order => dcgRets[a].ret = dcgRets[b].ret

\* three pairs summed in two orders, with results one unit apart
C25_Witness ==
    /\ Len(dcgRets) = 2
    /\ Len(evalCall.judgments) = 3
    /\ dcgRets[1].order # dcgRets[2].order
    /\ dcgRets[1].ret # dcgRets[2].ret
    /\ Within(dcgRets[1].ret, dcgRets[2].ret, MaxUlp(dcgRets[1].ret, dcgRets[2].ret))

----------------------------------------------------------------------------
(* ordinal_metric on the integer ranks of calc_iaa *)

\* C26: for integer ranks a # b of the judgment scale, ordinal_metric(a, b) is
\* strictly positive and non-decreasing in the rank gap |a - b|: no narrower
\* gap is at a larger distance, and adjacent ranks are not at distance 0.
C26_OrdinalMonotone ==
    (MetricDone /\ metricCall.metric = "ordinal" /\ metricCall.a # metricCall.b) =>
        /\ IsNumber(metricRet)
        /\ metricRet.num > 0
        /\ \A c, d \in Scale :
              (c # d /\ Abs(c - d) <= Abs(metricCall.a - metricCall.b)) =>
                  MetricOutcome([metric |-> "ordinal", a |-> c, b |-> d,
                                 vec |-> metricCall.vec]).num * metricRet.den
                      <= metricRet.num

----------------------------------------------------------------------------
(* Rows without a usable judgment in group_ndcgs *)

\* the (position, judgment) cells of the rows of a pair with judgment >= 0
JudgedCells(key) == {<<r.result_position, r.judgment>> : r \in Scored(key)}

\* the ideal judgments of a pair that are >= 0
UsableIdeals(key) ==
    IF key \in Keys(ideals)
    THEN SelectSeq(IdealsOf(ideals, key), LAMBDA j : j >= 0)
    ELSE <<>>

\* C27: rows whose judgment is null or negative never enter a per-query DCG
\* or NDCG of group_ndcgs, only rows with judgment >= 0 do: a pair without
\* such a row has no score, and two pairs that agree on their rows with
\* judgment >= 0 and on their ideal judgments >= 0 have the same scores,
\* whatever unjudged and unjudgeable rows they have.
C27_OnlyJudgedRowsScored ==
    (StatsDone /\ statsRet.kind = "dict") =>
        \A K \in {5, 10} :
            LET table == IF K = 5 THEN statsNdcgs.at_5 ELSE statsNdcgs.at_10
            IN  \A k1 \in Keys(judged_data) :
                    /\ JudgedCells(k1) = {} => ScoresOf(table, k1) = {}
                    /\ \A k2 \in Keys(judged_data) :
                          (/\ JudgedCells(k1) # {}
                           /\ JudgedCells(k1) = JudgedCells(k2)
                           /\ UsableIdeals(k1) = UsableIdeals(k2))
                              => /\ DcgNdcg(table, k1) = DcgNdcg(table, k2)
                                 /\ Cardinality(DcgNdcg(table, k1)) = 1

\* two pairs with the same relevant row at position 0, one of them with a
\* second row that is unjudged or unjudgeable
C27_Witness ==
    /\ StatsDone
    /\ statsRet.kind = "dict"
    /\ \E k1, k2 \in Keys(judged_data) :
          /\ JudgedCells(k1) = {<<0, 2>>}
          /\ JudgedCells(k2) = {<<0, 2>>}
          /\ UsableIdeals(k1) = UsableIdeals(k2)
          /\ \E r \in GroupOf(judged_data, k1) : r.judgment = -1
          /\ \A r \in GroupOf(judged_data, k2) : r.judgment = 2
          /\ \E sc \in ScoresOf(statsNdcgs.at_10, k1) : IsNumber(sc.ndcg) /\ sc.ndcg.num > 0

----------------------------------------------------------------------------
(* The rows submit_job sends for judgment *)

\* the groups of a job
GroupIds == {1, 2}

\* the rows of expanded_results_df: one per result of a query in a group
ResultRows == [query : Queries, result_fxf : Fxfs, group_id : GroupIds]

\* the (query, result_fxf) pairs in the order of the sorted keys
SortedPairs ==
    [k \in 1..(NumQueries * NumFxfs) |->
        <<((k - 1) \div NumFxfs) + 1, ((k - 1) % NumFxfs) + 1>>]

PairOf(row) == <<row.query, row.result_fxf>>

\* data_df.groupby(["query", "result_fxf"]).first().reset_index(): the first
\* row of each pair
grouped_first(rows) ==
    LET present == SelectSeq(SortedPairs, LAMBDA p :
                       \E k \in DOMAIN rows : PairOf(rows[k]) = p)
        first(p) == CHOOSE k \in DOMAIN rows :
                        /\ PairOf(rows[k]) = p
                        /\ \A m \in 1..(k - 1) : PairOf(rows[m]) # p
    IN  [k \in 1..Len(present) |-> rows[first(present[k])]]

\* submit_job: data_df as it is written to the CSV of the job
submit_job_data_df(table, data_df) ==
    LET kept == filter_previously_judged(table, {data_df[k] : k \in DOMAIN data_df})
    IN  grouped_first(SelectSeq(data_df, LAMBDA row : row \in kept))

\* the state of a pair in arcs_query_result: no row, a row without a
\* judgment, a judged row
PairStates == {NaN, 2}

InitSubmit ==
    /\ \E P \in SUBSET Pairs :
          \E f \in [P -> PairStates] :
             arcs_query_result =
                 {[id |-> (p[1] - 1) * NumFxfs + p[2], query |-> p[1],
                   result_fxf |-> p[2], judgment |-> f[p], job_id |-> 1] : p \in P}
    /\ arcs_job = {1}
    /\ cf_jobs = <<>>
    /\ arcs_group_join = <<>>
    /\ insertRet = NoInsert
    /\ QueryIdle
    /\ EvalIdle
    /\ SummaryIdle
    /\ AlphaIdle
    /\ ExpIdle

\* submit_job on the results of the groups
SubmitJobOfGroups ==
    /\ cf_jobs = <<>>
    /\ \E data_df \in SeqsUpTo(ResultRows, MaxLen) :
        /\ cf_jobs' = <<[data_df |-> data_df,
                         sent |-> submit_job_data_df(arcs_query_result, data_df)]>>
        /\ UNCHANGED <<arcs_query_result, arcs_job, arcs_group_join, insertRet,
                       evalVars, summaryVars, alphaVars, expVars, queryVars>>

NextSubmit == SubmitJobOfGroups

SpecSubmit == InitSubmit /\ [][NextSubmit]_vars

\* the pairs with a judgment in the database
JudgedPairs ==
    {<<r.query, r.result_fxf>> : r \in {x \in arcs_query_result : x.judgment # NaN}}

\* C28: the data submit_job sends for judgment holds each (query, result_fxf)
\* pair at most once, also when several groups returned it, and no pair that
\* has a judgment in the database at the time of the submission.
C28_SentOnceAndUnjudged ==
    \A j \in DOMAIN cf_jobs :
        LET sent == cf_jobs[j].sent
        IN  /\ \A a, b \in DOMAIN sent : PairOf(sent[a]) = PairOf(sent[b]) => a = b
            /\ \A a \in DOMAIN sent : PairOf(sent[a]) \notin JudgedPairs

\* a pair returned by two groups is sent once, and a judged pair of the same
\* data is not sent
C28_Witness ==
    \E j \in DOMAIN cf_jobs :
        LET df == cf_jobs[j].data_df
            sent == cf_jobs[j].sent
        IN  /\ Len(sent) = 1
            /\ \E a, b \in DOMAIN df :
                  /\ a # b
                  /\ PairOf(df[a]) = PairOf(sent[1])
                  /\ PairOf(df[b]) = PairOf(sent[1])
                  /\ df[a].group_id # df[b].group_id
            /\ JudgedPairs # {}

----------------------------------------------------------------------------
(* Repeated calls of insert_unjudged_query_results *)

\* the judgment of a stored pair: none yet, or one of two values
StoredStates == {NaN, 0, 2}

\* the database before the calls: empty, or the first result of query 1 is
\* stored, with or without a judgment; no group has been joined to it
InitInsert ==
    /\ \/ arcs_query_result = {}
       \/ \E j \in StoredStates :
             arcs_query_result =
                 {[id |-> 1, query |-> 1, result_fxf |-> 1,
                   judgment |-> j, job_id |-> 1]}
    /\ arcs_job = {1}
    /\ cf_jobs = <<>>
    /\ arcs_group_join = <<>>
    /\ insertRet = NoInsert
    /\ QueryIdle
    /\ EvalIdle
    /\ SummaryIdle
    /\ AlphaIdle
    /\ ExpIdle

\* insert_unjudged_query_results for a group and the result list of a query
\* (insert_unjudged_data_for_group calls it once per row of the group's data)
InsertUnjudgedQueryResultsOfGroup ==
    /\ insertRet.calls < MaxJobs
    /\ \E job \in arcs_job, group_id \in GroupIds, query \in Queries :
       \E fxfs \in SeqsUpTo(Fxfs, MaxLen) \ {<<>>} :
          /\ Inserted(insert_unjudged_query_results(
                          [arcs_query_result |-> arcs_query_result,
                           arcs_group_join |-> arcs_group_join,
                           new_qrps_added |-> 0, num_redundant_qrps |-> 0],
                          job, group_id, query, ResultsOf(fxfs)),
                      group_id, query, ResultsOf(fxfs))
          /\ UNCHANGED <<arcs_job, cf_jobs, evalVars, summaryVars, alphaVars, expVars, queryVars>>

NextInsert == InsertUnjudgedQueryResultsOfGroup

SpecInsert == InitInsert /\ [][NextInsert]_vars

\* at most one row per (query, result_fxf)
OneRowPerPair(table) ==
    \A r, s \in table :
        (r.query = s.query /\ r.result_fxf = s.result_fxf) => r = s

\* at most one row per (group, query-result, position)
OneRowPerJoin(join) ==
    \A a, b \in DOMAIN join : join[a] = join[b] => a = b

\* C29: every call of insert_unjudged_query_results leaves at most one row
\* per (query, result_fxf) in arcs_query_result and at most one row per
\* (group, query-result, position) in arcs_group_join; the rows that were
\* there stay as they were, judgment included; a row is created exactly for
\* the pairs of the call that had none, and the first number returned counts
\* these.
C29_InsertIsIdempotent ==
    [][/\ OneRowPerPair(arcs_query_result')
       /\ OneRowPerJoin(arcs_group_join')
       /\ arcs_query_result \subseteq arcs_query_result'
       /\ \A r \in arcs_query_result' \ arcs_query_result :
             /\ r.judgment = NaN
             /\ \A s \in arcs_query_result :
                   ~(s.query = r.query /\ s.result_fxf = r.result_fxf)
       /\ insertRet'.ret[1] =
             Cardinality(arcs_query_result' \ arcs_query_result)]_vars

\* a call has inserted a pair that was stored with a judgment: no row was
\* counted as new and the judgment is still there
C29_Witness ==
    /\ insertRet.kind = "returned"
    /\ insertRet.ret[1] = 0
    /\ \E r \in arcs_query_result :
          /\ r.judgment # NaN
          /\ r.query = insertRet.query
          /\ \E k \in DOMAIN insertRet.results :
                insertRet.results[k].result_fxf = r.result_fxf
    /\ \E k \in DOMAIN arcs_group_join :
          arcs_group_join[k].group_id = insertRet.group_id

----------------------------------------------------------------------------
(* insert_query: the table arcs_query *)

\* a = b in the WHERE clause of a statement: not true when either is NULL
SqlEq(a, b) == a # None /\ b # None /\ a = b

\* SELECT id FROM arcs_query WHERE query=%s AND domain=%s (a query is
\* never NULL)
SelectQuery(table, query, domain) ==
    {r \in table : r.query = query /\ SqlEq(r.domain, domain)}

\* insert_query: INSERT ... WHERE NOT EXISTS (the SELECT) RETURNING id, the
\* SELECT again when nothing was inserted, then the INSERT of
\* (query_id, group_id) into arcs_query_group_join
insert_query(st, group_id, query, domain) ==
    LET found == SelectQuery(st.arcs_query, query, domain)
        query_id == IF found = {} THEN NextId(st.arcs_query)
                    ELSE (CHOOSE r \in found : TRUE).id
    IN  [arcs_query |->
             IF found = {}
             THEN st.arcs_query \cup {[id |-> query_id, query |-> query,
                                       domain |-> domain]}
             ELSE st.arcs_query,
         arcs_query_group_join |->
             Append(st.arcs_query_group_join,
                    [query_id |-> query_id, group_id |-> group_id]),
         ret |-> query_id]

\* the domains of a call: a domain, or none (the default of the argument)
QueryDomains == Domains \cup {None}

InitQuery ==
    /\ DbIdle
    /\ EvalIdle
    /\ SummaryIdle
    /\ AlphaIdle
    /\ ExpIdle

\* a call of insert_query
InsertQuery ==
    /\ queryRet.calls < MaxJobs
    /\ \E group_id \in GroupIds, query \in Queries, domain \in QueryDomains :
          LET st == insert_query([arcs_query |-> arcs_query,
                                  arcs_query_group_join |-> arcs_query_group_join],
                                 group_id, query, domain)
          IN  /\ arcs_query' = st.arcs_query
              /\ arcs_query_group_join' = st.arcs_query_group_join
              /\ queryRet' = [kind |-> "returned", calls |-> queryRet.calls + 1,
                              query |-> query, domain |-> domain, ret |-> st.ret]
    /\ UNCHANGED <<evalVars, summaryVars, dbVars, alphaVars, expVars>>

NextQuery == InsertQuery

SpecQuery == InitQuery /\ [][NextQuery]_vars

\* C30: arcs_query holds at most one row per (query, domain), a pair without
\* a domain included, and a call of insert_query returns the id of the row
\* of its pair.
C30_OneRowPerQueryDomain ==
    /\ \A r, s \in arcs_query :
          (r.query = s.query /\ r.domain = s.domain) => r = s
    /\ queryRet.kind = "returned" =>
          \A r \in arcs_query :
              (r.query = queryRet.query /\ r.domain = queryRet.domain)
                  => r.id = queryRet.ret

====
